---- MODULE Spec2Model ----
(***************************************************************************)
(* Quality-control gate of the CYOA game server: the refusal detector and  *)
(* corrector (game/refusal_detector.py), the judge pipeline                *)
(* (game/judge_pipeline.py), the difficulty engine                         *)
(* (game/difficulty_utils.py) and the chat request handlers that drive     *)
(* them (game/chat_views.py).                                              *)
(*                                                                         *)
(* The Generator (call_llm) is an external collaborator: each call either  *)
(* returns a text or raises.  Every action that stands for the return of   *)
(* a Generator call draws that outcome from a small set.                   *)
(***************************************************************************)
EXTENDS Naturals, Integers, Sequences, FiniteSets, TLC

(***************************************************************************)
(* Texts.  A narrative text is an opaque token (kind, a, b); an answer of  *)
(* a classifier or comparator is a sequence of characters, because the     *)
(* parsers look inside it.                                                 *)
(***************************************************************************)
Txt(k, a, b) == [kind |-> k, a |-> a, b |-> b]

Empty == Txt("empty", 0, 0)

LowerChars == <<"a","b","c","d","e","f","g","h","i","j","k","l","m",
                "n","o","p","q","r","s","t","u","v","w","x","y","z">>

UpperChars == <<"A","B","C","D","E","F","G","H","I","J","K","L","M",
                "N","O","P","Q","R","S","T","U","V","W","X","Y","Z">>

\* str.lower() on one character
LowerChar(c) ==
    IF \E i \in 1..Len(UpperChars) : UpperChars[i] = c
    THEN LowerChars[CHOOSE i \in 1..Len(UpperChars) : UpperChars[i] = c]
    ELSE c

\* str.upper() on one character
UpperChar(c) ==
    IF \E i \in 1..Len(LowerChars) : LowerChars[i] = c
    THEN UpperChars[CHOOSE i \in 1..Len(LowerChars) : LowerChars[i] = c]
    ELSE c

Lower(s) == [i \in 1..Len(s) |-> LowerChar(s[i])]

Upper(s) == [i \in 1..Len(s) |-> UpperChar(s[i])]

\* str.strip(): drop leading and trailing blanks
RECURSIVE Strip(_)
Strip(s) ==
    IF s = <<>> THEN s
    ELSE IF Head(s) = " " THEN Strip(Tail(s))
    ELSE IF s[Len(s)] = " " THEN Strip(SubSeq(s, 1, Len(s) - 1))
    ELSE s

\* str.startswith(p)
StartsWith(s, p) == Len(s) >= Len(p) /\ SubSeq(s, 1, Len(p)) = p

\* p in s (substring)
Contains(s, p) ==
    \E i \in 1..(Len(s) + 1) :
        i + Len(p) - 1 <= Len(s) /\ SubSeq(s, i, i + Len(p) - 1) = p

\* the text a caught exception is rendered to: f"Error: {str(e)}"
ErrorResponse == <<"E","r","r","o","r",":">>

\* the answers a classifier or comparator call returns in this model
LLMAnswers == { <<"Y","e","s">>, <<"n","o">>, <<"m","a","y","b","e">>, <<>> }

\* the position-dependent text a successful Generator call returns, or the
\* empty text
GenTexts(k, a, b) == { Txt(k, a, b), Empty }

(***************************************************************************)
(* Bounds of the model.                                                    *)
(***************************************************************************)
MaxRetries == 3

MaxTurnArg == 2

MaxRequests == 2

MaxAttemptsCfg == 1

MaxRewriteAttempts == 3

MaxDeathTurn == 4

MaxAnswered == 9

MaxTimestamp == 2

MaxPieces == 3

MaxTime == 62

MaxCacheOps == 3

(***************************************************************************)
(* State.                                                                  *)
(***************************************************************************)
VARIABLES
    config,             \* the Configuration snapshot of the run
    llm_calls,          \* Generator calls issued so far by the current run
    \* process_potential_refusal
    r_pc,               \* position inside process_potential_refusal
    r_args,             \* its arguments
    refusal_result,     \* its result dict
    attempts_remaining, \* its local attempts_remaining
    current_attempt,    \* its local current_attempt
    corrected_turn,     \* its local corrected_turn
    \* run_judge_pipeline
    judge,              \* its position (pc), arguments, locals and result dict
    \* chat_views
    messages,           \* the ChatMessage rows of the conversation, oldest first
    game_session,       \* the GameSession row of the conversation
    chat,               \* position (pc) and locals of chat_api_send_message
    response,           \* the last HTTP response sent
    last_death_check,   \* what the last call of should_trigger_death saw and did
    requests_left,      \* send-message requests the run may still make
    \* OpenAI-compatible endpoint (message_processor, base_mode)
    owui_messages,      \* the conversation as the OpenWebUI client holds it
    session_table,      \* the GameSession rows that endpoint wrote, oldest first
    owui,               \* what its last request resolved and answered
    \* direct calls of the two answer parsers
    probe,              \* the arguments of the call and what each parser returned
    \* cache_utils.ResponseCache
    cache,              \* self._cache: for every key its entry, if any
    lock,               \* self._lock: TRUE while a thread holds it
    now,                \* time.time()
    thr,                \* for every thread the cache operation it is in
    last_set,           \* for every key the latest set that took effect
    cache_ops_left      \* cache operations the threads may still start

refusalVars == <<r_pc, r_args, refusal_result, attempts_remaining,
                 current_attempt, corrected_turn>>

owuiVars == <<owui_messages, session_table, owui>>

cacheVars == <<cache, lock, now, thr, last_set, cache_ops_left>>

chatVars == <<messages, game_session, chat, response, last_death_check,
              requests_left, owuiVars, probe, cacheVars>>

vars == <<config, llm_calls, refusalVars, judge, chatVars>>

\* one Generator call, as the caller issued it
LLMCall(site, step, attempt, prompt, subject) ==
    [site |-> site, step |-> step, attempt |-> attempt, prompt |-> prompt,
     subject |-> subject]

\* what a Generator call came back with
Returned(t) == [raised |-> FALSE, text |-> t]

Raised == [raised |-> TRUE, text |-> <<>>]

(***************************************************************************)
(* Boolean response parser, judge_pipeline._parse_boolean_response.        *)
(***************************************************************************)
\* the parser looking for the negative family first
_parse_boolean_response_negative_first(text, default) ==
    IF text = <<>> THEN default
    ELSE LET upper == Upper(Strip(text)) IN
         IF \/ Contains(upper, <<"N","O">>)
            \/ Contains(upper, <<"F","A","L","S","E">>)
            \/ Contains(upper, <<"F","A","I","L">>)
         THEN FALSE
         ELSE IF \/ Contains(upper, <<"Y","E","S">>)
                 \/ Contains(upper, <<"T","R","U","E">>)
                 \/ Contains(upper, <<"P","A","S","S">>)
         THEN TRUE
         ELSE default

_parse_boolean_response(text, default) ==
    IF text = <<>> THEN default
    ELSE LET upper == Upper(Strip(text)) IN
         IF \/ Contains(upper, <<"Y","E","S">>)
            \/ Contains(upper, <<"T","R","U","E">>)
            \/ Contains(upper, <<"P","A","S","S">>)
         THEN TRUE
         ELSE IF \/ Contains(upper, <<"N","O">>)
                 \/ Contains(upper, <<"F","A","L","S","E">>)
                 \/ Contains(upper, <<"F","A","I","L">>)
         THEN FALSE
         ELSE default

(***************************************************************************)
(* Refusal detector, refusal_detector.py.                                  *)
(***************************************************************************)
\* detect_refusal issues its classifier call only past its first guard
detect_refusal_calls(classifier_model, classifier_prompt) ==
    classifier_model /\ classifier_prompt = "set"

\* detect_refusal whose except branch returns True
detect_refusal_fail_closed(classifier_model, classifier_prompt, outcome) ==
    IF ~detect_refusal_calls(classifier_model, classifier_prompt)
    THEN [is_refusal |-> FALSE, classifier_response |-> <<>>]
    ELSE IF outcome.raised
    THEN [is_refusal |-> TRUE, classifier_response |-> ErrorResponse]
    ELSE LET response_lower == Lower(Strip(outcome.text)) IN
         [is_refusal |->
              \/ StartsWith(response_lower, <<"y","e","s">>)
              \/ StartsWith(response_lower, <<"t","r","u","e">>)
              \/ response_lower = <<"y","e","s">>
              \/ response_lower = <<"t","r","u","e">>,
          classifier_response |-> outcome.text]

\* detect_refusal that looks for a leading yes only
detect_refusal_only_yes(classifier_model, classifier_prompt, outcome) ==
    IF ~detect_refusal_calls(classifier_model, classifier_prompt)
    THEN [is_refusal |-> FALSE, classifier_response |-> <<>>]
    ELSE IF outcome.raised
    THEN [is_refusal |-> FALSE, classifier_response |-> ErrorResponse]
    ELSE LET response_lower == Lower(Strip(outcome.text)) IN
         [is_refusal |->
              \/ StartsWith(response_lower, <<"y","e","s">>)
              \/ response_lower = <<"y","e","s">>,
          classifier_response |-> outcome.text]

\* detect_refusal: outcome is what the classifier call came back with
detect_refusal(classifier_model, classifier_prompt, outcome) ==
    IF ~detect_refusal_calls(classifier_model, classifier_prompt)
    THEN [is_refusal |-> FALSE, classifier_response |-> <<>>]
    ELSE IF outcome.raised
    THEN [is_refusal |-> FALSE, classifier_response |-> ErrorResponse]
    ELSE LET response_lower == Lower(Strip(outcome.text)) IN
         [is_refusal |->
              \/ StartsWith(response_lower, <<"y","e","s">>)
              \/ StartsWith(response_lower, <<"t","r","u","e">>)
              \/ response_lower = <<"y","e","s">>
              \/ response_lower = <<"t","r","u","e">>,
          classifier_response |-> outcome.text]

\* the correction prompt process_potential_refusal selects
correction_prompt(cfg, is_game_ending) ==
    IF is_game_ending /\ cfg.game_ending_turn_correction_prompt
    THEN "game_ending_turn_correction"
    ELSE IF is_game_ending /\ cfg.game_ending_prompt
    THEN "game_ending"
    ELSE "turn_correction"

\* one entry of result['attempts']
RefusalAttempt(n, text, answer, was_refusal, error) ==
    [attempt_number |-> n, turn_text |-> text, classifier_response |-> answer,
     was_refusal |-> was_refusal, error |-> error]

\* the result dict as process_potential_refusal initialises it
InitialRefusalResult(story_turn) ==
    [final_turn |-> story_turn, was_refusal |-> FALSE,
     classifier_response |-> <<>>, was_corrected |-> FALSE,
     turn_1_refusal |-> FALSE, all_attempts_failed |-> FALSE,
     attempts |-> <<>>]

NoArgs == [story_turn |-> Empty, turn_number |-> 0, max_retries |-> 0,
           is_game_ending |-> FALSE]

\* RetryLoopHead with the loop test `attempts_remaining >= 0`
RetryLoopHead_extra_attempt(res, args, remaining, attempt) ==
    /\ attempts_remaining' = remaining
    /\ current_attempt' = attempt
    /\ IF remaining >= 0
       THEN /\ r_pc' = "correcting"
            /\ refusal_result' = res
            /\ llm_calls' = Append(llm_calls,
                   LLMCall("correction", 0, attempt,
                           correction_prompt(config, args.is_game_ending),
                           args.story_turn))
       ELSE /\ r_pc' = "done"
            /\ refusal_result' = [res EXCEPT !.was_corrected = FALSE,
                                             !.all_attempts_failed = TRUE]
            /\ llm_calls' = llm_calls

\* RetryLoopHead returning the result as it is when the budget is used up
RetryLoopHead_no_failed_flag(res, args, remaining, attempt) ==
    /\ attempts_remaining' = remaining
    /\ current_attempt' = attempt
    /\ IF remaining > 0
       THEN /\ r_pc' = "correcting"
            /\ refusal_result' = res
            /\ llm_calls' = Append(llm_calls,
                   LLMCall("correction", 0, attempt,
                           correction_prompt(config, args.is_game_ending),
                           args.story_turn))
       ELSE /\ r_pc' = "done"
            /\ refusal_result' = res
            /\ llm_calls' = llm_calls

\* the head of the retry loop: `while attempts_remaining > 0`, and the code
\* after the loop when the budget is used up
RetryLoopHead(res, args, remaining, attempt) ==
    /\ attempts_remaining' = remaining
    /\ current_attempt' = attempt
    /\ IF remaining > 0
       THEN /\ r_pc' = "correcting"
            /\ refusal_result' = res
            /\ llm_calls' = Append(llm_calls,
                   LLMCall("correction", 0, attempt,
                           correction_prompt(config, args.is_game_ending),
                           args.story_turn))
       ELSE /\ r_pc' = "done"
            /\ refusal_result' = [res EXCEPT !.was_corrected = FALSE,
                                             !.all_attempts_failed = TRUE]
            /\ llm_calls' = llm_calls

\* AfterFirstDetection with the budget `attempts_remaining = max_retries`
AfterFirstDetection_full_budget(base, args, det) ==
    LET res == [base EXCEPT
                  !.was_refusal = det.is_refusal,
                  !.classifier_response = det.classifier_response,
                  !.attempts = Append(@, RefusalAttempt(1, args.story_turn,
                                   det.classifier_response, det.is_refusal, FALSE))]
    IN
    IF ~det.is_refusal
    THEN /\ r_pc' = "done"
         /\ refusal_result' = res
         /\ UNCHANGED <<attempts_remaining, current_attempt, llm_calls>>
    ELSE IF args.turn_number = 1
    THEN /\ r_pc' = "done"
         /\ refusal_result' = [res EXCEPT !.turn_1_refusal = TRUE]
         /\ UNCHANGED <<attempts_remaining, current_attempt, llm_calls>>
    ELSE IF ~config.turn_correction_model \/ ~config.turn_correction_prompt
    THEN /\ r_pc' = "done"
         /\ refusal_result' = [res EXCEPT !.all_attempts_failed = TRUE]
         /\ UNCHANGED <<attempts_remaining, current_attempt, llm_calls>>
    ELSE RetryLoopHead(res, args, args.max_retries, 2)

\* AfterFirstDetection with the `turn_number == 1` branch left out
AfterFirstDetection_no_turn_1_branch(base, args, det) ==
    LET res == [base EXCEPT
                  !.was_refusal = det.is_refusal,
                  !.classifier_response = det.classifier_response,
                  !.attempts = Append(@, RefusalAttempt(1, args.story_turn,
                                   det.classifier_response, det.is_refusal, FALSE))]
    IN
    IF ~det.is_refusal
    THEN /\ r_pc' = "done"
         /\ refusal_result' = res
         /\ UNCHANGED <<attempts_remaining, current_attempt, llm_calls>>
    ELSE IF ~config.turn_correction_model \/ ~config.turn_correction_prompt
    THEN /\ r_pc' = "done"
         /\ refusal_result' = [res EXCEPT !.all_attempts_failed = TRUE]
         /\ UNCHANGED <<attempts_remaining, current_attempt, llm_calls>>
    ELSE RetryLoopHead(res, args, args.max_retries - 1, 2)

\* process_potential_refusal from the return of the first detect_refusal on
AfterFirstDetection(base, args, det) ==
    LET res == [base EXCEPT
                  !.was_refusal = det.is_refusal,
                  !.classifier_response = det.classifier_response,
                  !.attempts = Append(@, RefusalAttempt(1, args.story_turn,
                                   det.classifier_response, det.is_refusal, FALSE))]
    IN
    IF ~det.is_refusal
    THEN /\ r_pc' = "done"
         /\ refusal_result' = res
         /\ UNCHANGED <<attempts_remaining, current_attempt, llm_calls>>
    ELSE IF args.turn_number = 1
    THEN /\ r_pc' = "done"
         /\ refusal_result' = [res EXCEPT !.turn_1_refusal = TRUE]
         /\ UNCHANGED <<attempts_remaining, current_attempt, llm_calls>>
    ELSE IF ~config.turn_correction_model \/ ~config.turn_correction_prompt
    THEN /\ r_pc' = "done"
         /\ refusal_result' = [res EXCEPT !.all_attempts_failed = TRUE]
         /\ UNCHANGED <<attempts_remaining, current_attempt, llm_calls>>
    ELSE RetryLoopHead(res, args, args.max_retries - 1, 2)

\* process_potential_refusal up to its first Generator call (or, when no
\* call is issued at all, up to its return)
process_potential_refusal(story_turn, turn_number, max_retries, is_game_ending) ==
    LET args == [story_turn |-> story_turn, turn_number |-> turn_number,
                 max_retries |-> max_retries, is_game_ending |-> is_game_ending]
    IN
    /\ r_args' = args
    /\ corrected_turn' = corrected_turn
    /\ IF ~config.enable_refusal_detection
       THEN /\ r_pc' = "done"
            /\ refusal_result' = InitialRefusalResult(story_turn)
            /\ UNCHANGED <<attempts_remaining, current_attempt, llm_calls>>
       ELSE IF ~config.classifier_model \/ config.classifier_prompt = "none"
       THEN /\ r_pc' = "done"
            /\ refusal_result' = InitialRefusalResult(story_turn)
            /\ UNCHANGED <<attempts_remaining, current_attempt, llm_calls>>
       ELSE IF detect_refusal_calls(config.classifier_model, config.classifier_prompt)
       THEN /\ r_pc' = "classifying"
            /\ refusal_result' = InitialRefusalResult(story_turn)
            /\ llm_calls' = Append(llm_calls,
                   LLMCall("refusal_classifier", 0, 1, "classifier", story_turn))
            /\ UNCHANGED <<attempts_remaining, current_attempt>>
       ELSE AfterFirstDetection(InitialRefusalResult(story_turn), args,
                detect_refusal(config.classifier_model, config.classifier_prompt,
                               Raised))

\* the classifier call on the original turn returned or raised
RefusalClassified ==
    /\ r_pc = "classifying"
    /\ corrected_turn' = corrected_turn
    /\ \E outcome \in {Returned(a) : a \in LLMAnswers} \cup {Raised} :
          AfterFirstDetection(refusal_result, r_args,
              detect_refusal(config.classifier_model, config.classifier_prompt,
                             outcome))
    /\ UNCHANGED <<config, r_args, judge, chatVars>>

\* generate_corrected_turn returned a candidate: classify it next
CorrectionGenerated ==
    /\ r_pc = "correcting"
    /\ \E t \in GenTexts("corr", current_attempt, 0) :
          corrected_turn' = t
    /\ r_pc' = "reclassifying"
    /\ llm_calls' = Append(llm_calls,
           LLMCall("refusal_classifier", 0, current_attempt, "classifier",
                   corrected_turn'))
    /\ UNCHANGED <<config, r_args, refusal_result, attempts_remaining,
                   current_attempt, judge, chatVars>>

\* generate_corrected_turn raised: the except branch of the loop body
CorrectionFailed ==
    /\ r_pc = "correcting"
    /\ corrected_turn' = corrected_turn
    /\ RetryLoopHead(
          [refusal_result EXCEPT !.attempts = Append(@,
              RefusalAttempt(current_attempt, Empty, ErrorResponse, TRUE, TRUE))],
          r_args, attempts_remaining - 1, current_attempt + 1)
    /\ UNCHANGED <<config, r_args, judge, chatVars>>

\* adopt_corrected_turn without `result['final_turn'] = corrected_turn`
adopt_corrected_turn_keeps_original(res, candidate, det) ==
    [res EXCEPT !.was_corrected = TRUE,
                !.classifier_response = det.classifier_response]

\* the success branch of the loop body: the candidate is adopted
adopt_corrected_turn(res, candidate, det) ==
    [res EXCEPT !.final_turn = candidate,
                !.was_corrected = TRUE,
                !.classifier_response = det.classifier_response]

\* the classifier call on the candidate returned or raised
CorrectionClassified ==
    /\ r_pc = "reclassifying"
    /\ corrected_turn' = corrected_turn
    /\ \E outcome \in {Returned(a) : a \in LLMAnswers} \cup {Raised} :
          LET det == detect_refusal(config.classifier_model,
                                    config.classifier_prompt, outcome)
              res == [refusal_result EXCEPT !.attempts = Append(@,
                         RefusalAttempt(current_attempt, corrected_turn,
                             det.classifier_response, det.is_refusal, FALSE))]
          IN IF ~det.is_refusal
             THEN /\ r_pc' = "done"
                  /\ refusal_result' = adopt_corrected_turn(res, corrected_turn, det)
                  /\ UNCHANGED <<attempts_remaining, current_attempt, llm_calls>>
             ELSE RetryLoopHead(res, r_args, attempts_remaining - 1, current_attempt + 1)
    /\ UNCHANGED <<config, r_args, judge, chatVars>>

(***************************************************************************)
(* Judge pipeline, judge_pipeline.run_judge_pipeline.                      *)
(*                                                                         *)
(* The variable judge holds the locals of one run under their source       *)
(* names.  The operators below run the code from one point up to the next  *)
(* Generator call (or to the return); the actions are the returns of the   *)
(* Generator calls.  While an operator runs, judge.calls is the log of     *)
(* Generator calls.                                                        *)
(***************************************************************************)
\* the fallback of `step.max_rewrite_attempts or 3`
DefaultRewriteAttempts == 3

\* None, as the value of a text variable
NoneText == Txt("none", 0, 0)

\* Python truthiness of a text: None and '' are falsy
Truthy(t) == t # NoneText /\ t # Empty

\* the (order, id) sort key of order_by('order', 'id')
StepBefore(s, t) == s.order < t.order \/ (s.order = t.order /\ s.id < t.id)

\* config.judge_steps.filter(enabled=True).order_by('order', 'id')
RECURSIVE OrderedSteps(_)
OrderedSteps(S) ==
    IF S = {} THEN <<>>
    ELSE LET first == CHOOSE s \in S : \A t \in S \ {s} : StepBefore(s, t)
         IN <<first>> \o OrderedSteps(S \ {first})

\* EnabledSteps without `.filter(enabled=True)`
EnabledSteps_unfiltered(cfg) == OrderedSteps(cfg.judge_steps)

EnabledSteps(cfg) == OrderedSteps({s \in cfg.judge_steps : s.enabled})

\* step_result as the loop body initialises it
InitialStepResult(step) ==
    [step_id |-> step.id, classifier_response |-> <<>>,
     needs_correction |-> FALSE, attempts |-> <<>>, used_rewrite |-> FALSE,
     final_used |-> "original", error |-> "None"]

\* attempt_result as the retry loop initialises it
InitialAttemptResult(n) ==
    [attempt_number |-> n, rewrite_text |-> Empty, compare_response |-> <<>>,
     approved |-> FALSE, error |-> "None"]

IdleJudge ==
    [pc |-> "idle", story_turn |-> Empty, steps |-> <<>>, i |-> 0,
     current_turn |-> Empty,
     result |-> [final_turn |-> Empty, was_modified |-> FALSE, steps |-> <<>>],
     step_result |-> InitialStepResult([id |-> 0]),
     max_attempts |-> 0, attempt_num |-> 0, rewrite_approved |-> FALSE,
     best_rewrite |-> NoneText, all_attempts_failed |-> FALSE,
     last_error |-> "None", attempt_result |-> InitialAttemptResult(0),
     calls |-> <<>>]

RECURSIVE J_NextStep(_), J_StartStep(_), J_LoopHead(_), J_AfterLoop(_)

\* J_Return without `result['final_turn'] = current_turn`
J_Return_keeps_input(st) ==
    [st EXCEPT !.pc = "done"]

\* `result['final_turn'] = current_turn; return result`
J_Return(st) ==
    [st EXCEPT !.pc = "done", !.result.final_turn = st.current_turn]

\* J_AttemptError ending the retry loop at the first failure
J_AttemptError_breaks(st) ==
    LET ar == [st.attempt_result EXCEPT !.error = "Error"] IN
    J_AfterLoop([st EXCEPT !.attempt_result = ar,
                           !.last_error = "Error",
                           !.all_attempts_failed = TRUE,
                           !.step_result.attempts = Append(@, ar)])

\* the except branch of the retry loop body, then the append after it
J_AttemptError(st) ==
    LET ar == [st.attempt_result EXCEPT !.error = "Error"] IN
    J_LoopHead([st EXCEPT !.attempt_result = ar,
                          !.last_error = "Error",
                          !.all_attempts_failed = TRUE,
                          !.step_result.attempts = Append(@, ar),
                          !.attempt_num = @ + 1])

\* J_Rejected carrying the rejected rewrite on as the running text
J_Rejected_keeps_rewrite(st) ==
    J_LoopHead([st EXCEPT !.step_result.attempts = Append(@, st.attempt_result),
                          !.current_turn = st.attempt_result.rewrite_text,
                          !.attempt_num = @ + 1])

\* the comparator did not approve: the append after the try, next iteration
J_Rejected(st) ==
    J_LoopHead([st EXCEPT !.step_result.attempts = Append(@, st.attempt_result),
                          !.attempt_num = @ + 1])

\* J_Approved without the `break`: the loop goes on to the next attempt
J_Approved_no_break(st) ==
    J_LoopHead([st EXCEPT !.best_rewrite = st.attempt_result.rewrite_text,
                          !.rewrite_approved = TRUE,
                          !.step_result.attempts = Append(@, st.attempt_result),
                          !.attempt_num = @ + 1])

\* the comparator approved: record, append and break
J_Approved(st) ==
    J_AfterLoop([st EXCEPT !.best_rewrite = st.attempt_result.rewrite_text,
                           !.rewrite_approved = TRUE,
                           !.step_result.attempts = Append(@, st.attempt_result)])

\* J_StepError leaving the pipeline instead of going on to the next step
J_StepError_aborts(st) ==
    LET sr == [st.step_result EXCEPT !.error = "Error", !.final_used = "original"]
    IN J_Return([st EXCEPT !.step_result = sr,
                           !.result.steps = Append(@, sr)])

\* the except branch of the step body
J_StepError(st) ==
    LET sr == [st.step_result EXCEPT !.error = "Error", !.final_used = "original"]
    IN J_NextStep([st EXCEPT !.step_result = sr,
                             !.result.steps = Append(@, sr)])

\* `for attempt_num in range(1, max_attempts + 1)`: start the next attempt
\* up to its rewrite call, or leave the loop
J_LoopHead(st) ==
    IF st.attempt_num <= st.max_attempts
    THEN LET step == st.steps[st.i]
             st1 == [st EXCEPT !.attempt_result =
                                   InitialAttemptResult(st.attempt_num)]
         IN IF ~step.rewrite_prompt
            THEN J_AttemptError(st1)
            ELSE [st1 EXCEPT !.pc = "rewriting",
                             !.calls = Append(@,
                                 LLMCall("rewrite", step.id, st.attempt_num,
                                         "rewrite", st.current_turn))]
    ELSE J_AfterLoop(st)

\* the code after the retry loop
J_AfterLoop(st) ==
    LET st1 == IF st.all_attempts_failed /\ ~st.rewrite_approved
                  /\ st.last_error # "None"
               THEN [st EXCEPT !.step_result.error = st.last_error]
               ELSE st
        st2 == IF st1.rewrite_approved /\ Truthy(st1.best_rewrite)
               THEN [st1 EXCEPT !.current_turn = st1.best_rewrite,
                                !.step_result.used_rewrite = TRUE,
                                !.step_result.final_used = "rewrite",
                                !.result.was_modified = TRUE]
               ELSE [st1 EXCEPT !.step_result.final_used = "original"]
    IN J_NextStep([st2 EXCEPT !.result.steps = Append(@, st2.step_result)])

\* phases 2 and 3 of a step: the locals, then the retry loop
J_BeginRewrite(st) ==
    LET step == st.steps[st.i] IN
    J_LoopHead([st EXCEPT
        !.max_attempts = IF step.max_rewrite_attempts # 0
                         THEN step.max_rewrite_attempts
                         ELSE DefaultRewriteAttempts,
        !.rewrite_approved = FALSE,
        !.best_rewrite = NoneText,
        !.all_attempts_failed = FALSE,
        !.last_error = "None",
        !.attempt_num = 1])

\* the body of `for step in judge_steps` up to its first Generator call
J_StartStep(st) ==
    LET step == st.steps[st.i]
        st1 == [st EXCEPT !.step_result = InitialStepResult(step)]
    IN IF step.classifier_prompt /\ step.classifier_model
       THEN [st1 EXCEPT !.pc = "classifying",
                        !.calls = Append(@,
                            LLMCall("judge_classifier", step.id, 0,
                                    "classifier", st.current_turn))]
       ELSE J_BeginRewrite(st1)

\* `for step in judge_steps`: the next step, or the return
J_NextStep(st) ==
    IF st.i < Len(st.steps)
    THEN J_StartStep([st EXCEPT !.i = @ + 1])
    ELSE J_Return(st)

\* run_judge_pipeline from its call up to its first Generator call
run_judge_pipeline(story_turn, cfg, calls) ==
    LET st0 == [IdleJudge EXCEPT
                   !.story_turn = story_turn,
                   !.result = [final_turn |-> story_turn,
                               was_modified |-> FALSE, steps |-> <<>>],
                   !.calls = calls]
    IN IF ~cfg.present
       THEN [st0 EXCEPT !.pc = "done"]
       ELSE IF EnabledSteps(cfg) = <<>>
       THEN [st0 EXCEPT !.pc = "done"]
       ELSE J_NextStep([st0 EXCEPT !.steps = EnabledSteps(cfg),
                                   !.current_turn = story_turn])

\* an operator of the pipeline has run: publish its locals and its calls
JudgeBecomes(st) ==
    /\ judge' = [st EXCEPT !.calls = <<>>]
    /\ llm_calls' = st.calls

JudgeNow == [judge EXCEPT !.calls = llm_calls]

\* JudgeClassified parsing the classifier response with default False
JudgeClassified_default_false ==
    /\ judge.pc = "classifying"
    /\ \E outcome \in {Returned(a) : a \in LLMAnswers} \cup {Raised} :
          IF outcome.raised
          THEN JudgeBecomes(J_StepError(JudgeNow))
          ELSE LET needs_correction == _parse_boolean_response(outcome.text, FALSE)
                   st == [JudgeNow EXCEPT
                            !.step_result.classifier_response = outcome.text,
                            !.step_result.needs_correction = needs_correction]
               IN IF ~needs_correction
                  THEN JudgeBecomes(J_NextStep(
                           [st EXCEPT !.step_result.final_used = "original",
                                      !.result.steps =
                                          Append(@, [st.step_result EXCEPT
                                                       !.final_used = "original"])]))
                  ELSE JudgeBecomes(J_BeginRewrite(st))
    /\ UNCHANGED <<config, refusalVars, chatVars>>

\* the classifier call of the current step returned or raised
JudgeClassified ==
    /\ judge.pc = "classifying"
    /\ \E outcome \in {Returned(a) : a \in LLMAnswers} \cup {Raised} :
          IF outcome.raised
          THEN JudgeBecomes(J_StepError(JudgeNow))
          ELSE LET needs_correction == _parse_boolean_response(outcome.text, TRUE)
                   st == [JudgeNow EXCEPT
                            !.step_result.classifier_response = outcome.text,
                            !.step_result.needs_correction = needs_correction]
               IN IF ~needs_correction
                  THEN JudgeBecomes(J_NextStep(
                           [st EXCEPT !.step_result.final_used = "original",
                                      !.result.steps =
                                          Append(@, [st.step_result EXCEPT
                                                       !.final_used = "original"])]))
                  ELSE JudgeBecomes(J_BeginRewrite(st))
    /\ UNCHANGED <<config, refusalVars, chatVars>>

\* JudgeRewritten with a try block around the rewrite call alone: a failure
\* is recorded in the attempt and the compare call is made all the same
JudgeRewritten_compares_anyway ==
    /\ judge.pc = "rewriting"
    /\ LET step == judge.steps[judge.i] IN
       \E outcome \in {Returned(t) : t \in GenTexts("rw", step.id, judge.attempt_num)}
                      \cup {Raised} :
          LET st == IF outcome.raised
                    THEN [JudgeNow EXCEPT !.attempt_result.error = "Error"]
                    ELSE [JudgeNow EXCEPT
                            !.attempt_result.rewrite_text = outcome.text]
          IN IF ~step.compare_prompt
             THEN JudgeBecomes(J_AttemptError(st))
             ELSE JudgeBecomes(
                      [st EXCEPT !.pc = "comparing",
                                 !.calls = Append(@,
                                     LLMCall("compare", step.id,
                                             judge.attempt_num, "compare",
                                             st.current_turn))])
    /\ UNCHANGED <<config, refusalVars, chatVars>>

\* the rewrite call of the current attempt returned or raised
JudgeRewritten ==
    /\ judge.pc = "rewriting"
    /\ LET step == judge.steps[judge.i] IN
       \E outcome \in {Returned(t) : t \in GenTexts("rw", step.id, judge.attempt_num)}
                      \cup {Raised} :
          IF outcome.raised
          THEN JudgeBecomes(J_AttemptError(JudgeNow))
          ELSE LET st == [JudgeNow EXCEPT
                            !.attempt_result.rewrite_text = outcome.text]
               IN IF ~step.compare_prompt
                  THEN JudgeBecomes(J_AttemptError(st))
                  ELSE JudgeBecomes(
                           [st EXCEPT !.pc = "comparing",
                                      !.calls = Append(@,
                                          LLMCall("compare", step.id,
                                                  judge.attempt_num, "compare",
                                                  st.current_turn))])
    /\ UNCHANGED <<config, refusalVars, chatVars>>

\* the compare call of the current attempt returned or raised
JudgeCompared ==
    /\ judge.pc = "comparing"
    /\ \E outcome \in {Returned(a) : a \in LLMAnswers} \cup {Raised} :
          IF outcome.raised
          THEN JudgeBecomes(J_AttemptError(JudgeNow))
          ELSE LET approved == _parse_boolean_response(outcome.text, FALSE)
                   st == [JudgeNow EXCEPT
                            !.attempt_result.compare_response = outcome.text,
                            !.attempt_result.approved = approved]
               IN IF approved
                  THEN JudgeBecomes(J_Approved(st))
                  ELSE JudgeBecomes(J_Rejected(st))
    /\ UNCHANGED <<config, refusalVars, chatVars>>

(***************************************************************************)
(* Difficulty engine, difficulty_utils.py and DifficultyProfile.evaluate.  *)
(* Probabilities and rolls are fixed-point numbers, Scale standing for 1.0 *)
(***************************************************************************)
Scale == 10000

\* GameSession.last_death_roll / last_death_probability when null
NoValue == -1

\* the configured expression, evaluated on x (turn) and n (max_turns): a
\* number, or an exception
expression(profile, x, n) ==
    CASE profile = "always"    -> [raised |-> FALSE, value |-> Scale]
      [] profile = "never"     -> [raised |-> FALSE, value |-> 0]
      [] profile = "overshoot" -> [raised |-> FALSE, value |-> 5 * Scale]
      [] profile = "negative"  -> [raised |-> FALSE, value |-> 0 - Scale]
      [] profile = "quadratic" ->
            IF n = 0 THEN [raised |-> TRUE, value |-> 0]
            ELSE [raised |-> FALSE,
                  value |-> 500 + (3500 * x * x) \div (n * n)]
      [] OTHER                 -> [raised |-> TRUE, value |-> 0]

Min(a, b) == IF a < b THEN a ELSE b

Max(a, b) == IF a > b THEN a ELSE b

\* DifficultyProfile.evaluate
evaluate(profile, current_turn, max_turns) ==
    LET result == expression(profile, current_turn, max_turns) IN
    IF result.raised THEN 0
    ELSE Max(0, Min(Scale, result.value))

\* calculate_turn_number
RECURSIVE calculate_turn_number(_)
calculate_turn_number(filtered_messages) ==
    IF filtered_messages = <<>> THEN 0
    ELSE (IF Head(filtered_messages).role = "user" THEN 1 ELSE 0)
         + calculate_turn_number(Tail(filtered_messages))

\* prepare_death_scene_messages: one user message, the narrative summary of
\* the given history followed by the instruction to write the death scene
prepare_death_scene_messages(filtered_messages) ==
    Txt("death_scene", Len(filtered_messages), 0)

\* should_trigger_death without its `Game already over` branch
should_trigger_death_no_latch(turn_number, max_turns, difficulty_profile, session, roll) ==
    IF turn_number = 1
    THEN [will_die |-> FALSE, session |-> session, rolled |-> FALSE]
    ELSE LET death_probability == evaluate(difficulty_profile, turn_number, max_turns)
             will_die == roll < death_probability
         IN [will_die |-> will_die,
             session |-> IF session.exists
                         THEN [session EXCEPT
                                 !.last_death_probability = death_probability,
                                 !.last_death_roll = roll]
                         ELSE session,
             rolled |-> TRUE]

\* should_trigger_death without its `Turn 1` branch
should_trigger_death_no_exemption(turn_number, max_turns, difficulty_profile, session, roll) ==
    IF session.exists /\ session.game_over
    THEN [will_die |-> TRUE, session |-> session, rolled |-> FALSE]
    ELSE LET death_probability == evaluate(difficulty_profile, turn_number, max_turns)
             will_die == roll < death_probability
         IN [will_die |-> will_die,
             session |-> IF session.exists
                         THEN [session EXCEPT
                                 !.last_death_probability = death_probability,
                                 !.last_death_roll = roll]
                         ELSE session,
             rolled |-> TRUE]

\* should_trigger_death with the test `roll <= death_probability`
should_trigger_death_non_strict(turn_number, max_turns, difficulty_profile, session, roll) ==
    IF turn_number = 1
    THEN [will_die |-> FALSE, session |-> session, rolled |-> FALSE]
    ELSE IF session.exists /\ session.game_over
    THEN [will_die |-> TRUE, session |-> session, rolled |-> FALSE]
    ELSE LET death_probability == evaluate(difficulty_profile, turn_number, max_turns)
             will_die == roll <= death_probability
         IN [will_die |-> will_die,
             session |-> IF session.exists
                         THEN [session EXCEPT
                                 !.last_death_probability = death_probability,
                                 !.last_death_roll = roll]
                         ELSE session,
             rolled |-> TRUE]

\* should_trigger_death; roll is the value random.random() returns if it is
\* called.  The result carries the session as the call leaves it.
should_trigger_death(turn_number, max_turns, difficulty_profile, session, roll) ==
    IF turn_number = 1
    THEN [will_die |-> FALSE, session |-> session, rolled |-> FALSE]
    ELSE IF session.exists /\ session.game_over
    THEN [will_die |-> TRUE, session |-> session, rolled |-> FALSE]
    ELSE LET death_probability == evaluate(difficulty_profile, turn_number, max_turns)
             will_die == roll < death_probability
         IN [will_die |-> will_die,
             session |-> IF session.exists
                         THEN [session EXCEPT
                                 !.last_death_probability = death_probability,
                                 !.last_death_roll = roll]
                         ELSE session,
             rolled |-> TRUE]

(***************************************************************************)
(* Chat request handlers, chat_views.py.  Requests on the conversation     *)
(* are handled one at a time.                                              *)
(***************************************************************************)
\* `[:20]` in chat_api_send_message
HistoryWindow == 20

\* max_retries=3 in the call of process_potential_refusal
ChatMaxRetries == 3

\* `config.total_turns if config else 20`
DefaultMaxTurns == 20

\* error_text of the two blocked branches
Fallback == Txt("fallback", 0, 0)

UserText == Txt("user", 0, 0)

NoSession ==
    [exists |-> FALSE, turn_number |-> 0, max_turns |-> 0, game_over |-> FALSE,
     last_death_roll |-> NoValue, last_death_probability |-> NoValue]

IdleChat ==
    [pc |-> "idle", turn_number |-> 0, use_game_ending_prompt |-> FALSE,
     system_prompt |-> "None", llm_response |-> Empty]

NoRefusalInfo ==
    [was_refusal |-> FALSE, was_corrected |-> FALSE, turn_1_refusal |-> FALSE,
     all_attempts_failed |-> FALSE]

NoResponse ==
    [status |-> 0, content |-> Empty, game_blocked |-> FALSE,
     refusal_info |-> NoRefusalInfo, judged |-> FALSE]

ErrorResponse500 == [NoResponse EXCEPT !.status = 500]

NoDeathCheck ==
    [called |-> FALSE, turn_number |-> 0, was_over |-> FALSE,
     returned |-> FALSE, rolled |-> FALSE, roll |-> NoValue,
     before |-> NoSession,
     after |-> NoSession]

\* the last n elements of a sequence
LastN(seq, n) ==
    IF Len(seq) <= n THEN seq ELSE SubSeq(seq, Len(seq) - n + 1, Len(seq))

\* extract_game_state(text)['turn_current']: the X of "Turn X of Y" in the
\* text, 0 when the text has none
turn_current(text) == IF text.kind = "story" THEN text.b ELSE 0

\* the texts the storyteller returns: without a turn line, or with the
\* line of the last turn
StoryTexts(cfg) == { Txt("story", 0, 0), Txt("story", 0, cfg.total_turns) }

\* the rolls random.random() returns in this model
Rolls == { 1000, 2000 }

ResetRun ==
    /\ r_pc' = "idle"
    /\ r_args' = NoArgs
    /\ refusal_result' = InitialRefusalResult(Empty)
    /\ attempts_remaining' = 0
    /\ current_attempt' = 0
    /\ corrected_turn' = Empty
    /\ judge' = IdleJudge

\* chat_api_send_message from the request up to the storyteller call
ChatSend ==
    /\ chat.pc = "idle"
    /\ requests_left > 0
    /\ \E roll \in Rolls :
       LET all == Append(messages, [role |-> "user", content |-> UserText])
           history == LastN(all, HistoryWindow)
           turn_number == calculate_turn_number(history)
           max_turns == IF config.present THEN config.total_turns
                        ELSE DefaultMaxTurns
           session == IF ~game_session.exists
                      THEN [NoSession EXCEPT !.exists = TRUE,
                                             !.max_turns = max_turns,
                                             !.turn_number = turn_number]
                      ELSE [game_session EXCEPT !.turn_number = turn_number]
           checks == config.present /\ config.difficulty # "None"
           check == IF checks
                    THEN should_trigger_death(turn_number, session.max_turns,
                                              config.difficulty, session, roll)
                    ELSE [will_die |-> FALSE, session |-> session,
                          rolled |-> FALSE]
           after == IF check.will_die
                    THEN [check.session EXCEPT !.game_over = TRUE]
                    ELSE check.session
           system_prompt ==
               IF ~config.present THEN "None"
               ELSE IF check.will_die /\ config.game_ending_prompt
               THEN "game_ending"
               ELSE IF config.adventure_prompt THEN "adventure"
               ELSE "None"
       IN /\ messages' = all
          /\ requests_left' = requests_left - 1
          /\ UNCHANGED <<owuiVars, probe, cacheVars>>
          /\ game_session' = after
          /\ last_death_check' =
                IF checks
                THEN [called |-> TRUE, turn_number |-> turn_number,
                      was_over |-> session.game_over,
                      returned |-> check.will_die, rolled |-> check.rolled,
                      roll |-> IF check.rolled THEN roll ELSE NoValue,
                      before |-> session, after |-> check.session]
                ELSE NoDeathCheck
          /\ ResetRun
          /\ IF ~config.present \/ ~config.storyteller_model
             THEN /\ chat' = IdleChat
                  /\ response' = ErrorResponse500
                  /\ llm_calls' = <<>>
             ELSE /\ chat' = [pc |-> "storyteller", turn_number |-> turn_number,
                              use_game_ending_prompt |-> check.will_die,
                              system_prompt |-> system_prompt,
                              llm_response |-> Empty]
                  /\ response' = NoResponse
                  /\ llm_calls' = <<LLMCall("storyteller", 0, 0, system_prompt,
                                            Txt("history", Len(history), 0))>>
    /\ UNCHANGED config

\* ChatStorytellerFailed with the request in a transaction: the session is
\* again as the request found it
ChatStorytellerFailed_rolls_back ==
    /\ chat.pc = "storyteller"
    /\ chat' = IdleChat
    /\ response' = ErrorResponse500
    /\ game_session' = IF last_death_check.called
                       THEN last_death_check.before
                       ELSE game_session
    /\ UNCHANGED <<config, llm_calls, refusalVars, judge, messages,
                   last_death_check,
                   requests_left, owuiVars, probe, cacheVars>>

\* the storyteller call raised: the except branch of the handler
ChatStorytellerFailed ==
    /\ chat.pc = "storyteller"
    /\ chat' = IdleChat
    /\ response' = ErrorResponse500
    /\ UNCHANGED <<config, llm_calls, refusalVars, judge, messages,
                   game_session, last_death_check,
                   requests_left, owuiVars, probe, cacheVars>>

\* the storyteller call returned: on to process_potential_refusal
ChatStorytellerReturned ==
    /\ chat.pc = "storyteller"
    /\ \E t \in StoryTexts(config) :
          /\ chat' = [chat EXCEPT !.pc = "refusal", !.llm_response = t]
          /\ process_potential_refusal(t, chat.turn_number, ChatMaxRetries,
                                       chat.use_game_ending_prompt)
    /\ UNCHANGED <<config, judge, messages, game_session, response,
                   last_death_check,
                   requests_left, owuiVars, probe, cacheVars>>

\* game_blocked with the `all_attempts_failed` branch left out
game_blocked_turn_1_only(refusal_info) ==
    refusal_info.turn_1_refusal

\* the two blocked branches: turn 1 refusal, all attempts failed
game_blocked(refusal_info) ==
    refusal_info.turn_1_refusal \/ refusal_info.all_attempts_failed

\* mark_game_complete assigning the max-turn test to game_over
mark_game_complete_assigned(session, final_response) ==
    [session EXCEPT !.game_over =
                        turn_current(final_response) >= session.max_turns]

\* `if game_state['turn_current'] >= game_session.max_turns or
\* game_session.game_over: game_session.game_over = True`
mark_game_complete(session, final_response) ==
    IF turn_current(final_response) >= session.max_turns \/ session.game_over
    THEN [session EXCEPT !.game_over = TRUE]
    ELSE session

\* the response of the two blocked branches
BlockedResponse(info) ==
    [status |-> 200, content |-> Fallback, game_blocked |-> TRUE,
     refusal_info |-> info, judged |-> FALSE]

\* process_potential_refusal returned: the blocked branches, or on to
\* run_judge_pipeline
ChatRefusalReturned ==
    /\ chat.pc = "refusal"
    /\ r_pc = "done"
    /\ LET refusal_info ==
              [was_refusal |-> refusal_result.was_refusal,
               was_corrected |-> refusal_result.was_corrected,
               turn_1_refusal |-> refusal_result.turn_1_refusal,
               all_attempts_failed |-> refusal_result.all_attempts_failed]
       IN IF game_blocked(refusal_info)
          THEN /\ messages' = Append(messages,
                      [role |-> "assistant", content |-> Fallback])
               /\ response' = BlockedResponse(refusal_info)
               /\ chat' = IdleChat
               /\ UNCHANGED <<judge, llm_calls>>
          ELSE /\ JudgeBecomes(run_judge_pipeline(refusal_result.final_turn,
                                                  config, llm_calls))
               /\ chat' = [chat EXCEPT !.pc = "judge"]
               /\ UNCHANGED <<messages, response>>
    /\ UNCHANGED <<config, refusalVars, game_session, last_death_check,
                   requests_left, owuiVars, probe, cacheVars>>

\* run_judge_pipeline returned: store the turn, mark the game, respond
ChatJudgeReturned ==
    /\ chat.pc = "judge"
    /\ judge.pc = "done"
    /\ LET final_response == IF judge.result.steps # <<>>
                             THEN judge.result.final_turn
                             ELSE refusal_result.final_turn
       IN /\ messages' = Append(messages,
                 [role |-> "assistant", content |-> final_response])
          /\ game_session' = mark_game_complete(game_session, final_response)
          /\ response' =
                [status |-> 200, content |-> final_response,
                 game_blocked |-> FALSE,
                 refusal_info |->
                     IF refusal_result.was_refusal
                     THEN [was_refusal |-> refusal_result.was_refusal,
                           was_corrected |-> refusal_result.was_corrected,
                           turn_1_refusal |-> refusal_result.turn_1_refusal,
                           all_attempts_failed |->
                               refusal_result.all_attempts_failed]
                     ELSE NoRefusalInfo,
                 judged |-> TRUE]
    /\ chat' = IdleChat
    /\ UNCHANGED <<config, llm_calls, refusalVars, judge, last_death_check,
                   requests_left, owuiVars, probe, cacheVars>>

\* chat_api_delete_conversation
ChatDelete ==
    /\ chat.pc = "idle"
    /\ IF game_session.exists
       THEN /\ game_session' = [game_session EXCEPT !.game_over = TRUE]
            /\ response' = [NoResponse EXCEPT !.status = 200]
       ELSE /\ game_session' = game_session
            /\ response' = [NoResponse EXCEPT !.status = 404]
    /\ UNCHANGED <<config, llm_calls, refusalVars, judge, messages, chat,
                   last_death_check,
                   requests_left, owuiVars, probe, cacheVars>>

(***************************************************************************)
(* Session identity of the OpenAI-compatible endpoint: session_utils.py,   *)
(* message_processor.py and base_mode.py.  A message content is a sequence *)
(* of tokens, a token being one character or one session marker, because   *)
(* the marker functions look inside the content.  A sha256 digest is the   *)
(* record of what was hashed.                                              *)
(***************************************************************************)
\* None as a session id: no generated id has timestamp 0
NoSessionId == [timestamp |-> 0, first_msg |-> <<>>]

\* None as a fingerprint: no fingerprint is made of an empty content
NoFingerprint == [first_user |-> <<>>, first_assistant |-> <<>>]

Ch(c) == [form |-> "char", ch |-> c, id |-> NoSessionId]

\* a session marker: "md" is [^s]: # (id), "html" is <!-- CYOA_SESSION:id -->,
\* "xml" is <CYOA_SESSION_ID:id>
Marker(form, id) == [form |-> form, ch |-> "", id |-> id]

Str(chars) == [i \in 1..Len(chars) |-> Ch(chars[i])]

IsNewline(tok) == tok.form = "char" /\ tok.ch = "\n"

IsSpace(tok) == tok.form = "char" /\ tok.ch \in {" ", "\n"}

\* content[:n]
Prefix(content, n) == SubSeq(content, 1, IF Len(content) < n THEN Len(content) ELSE n)

\* str.rstrip()
RECURSIVE RStrip(_)
RStrip(content) ==
    IF content # <<>> /\ IsSpace(content[Len(content)])
    THEN RStrip(SubSeq(content, 1, Len(content) - 1))
    ELSE content

\* the newlines a pattern \n* takes at the end of what precedes a marker
RECURSIVE DropTrailingNewlines(_)
DropTrailingNewlines(content) ==
    IF content # <<>> /\ IsNewline(content[Len(content)])
    THEN DropTrailingNewlines(SubSeq(content, 1, Len(content) - 1))
    ELSE content

\* the blanks a pattern \s* takes at the start of what follows a marker
RECURSIVE DropLeadingSpace(_)
DropLeadingSpace(content) ==
    IF content # <<>> /\ IsSpace(Head(content))
    THEN DropLeadingSpace(Tail(content))
    ELSE content

\* re.sub of a marker pattern with leading \n* ("md", "xml")
RECURSIVE SubLeadingNewlines(_, _)
SubLeadingNewlines(content, form) ==
    IF content = <<>> THEN <<>>
    ELSE LET last == content[Len(content)]
             init == SubSeq(content, 1, Len(content) - 1)
         IN IF last.form = form
            THEN SubLeadingNewlines(DropTrailingNewlines(init), form)
            ELSE Append(SubLeadingNewlines(init, form), last)

\* re.sub of the marker pattern with trailing \s* ("html")
RECURSIVE SubTrailingSpace(_, _)
SubTrailingSpace(content, form) ==
    IF content = <<>> THEN <<>>
    ELSE IF Head(content).form = form
    THEN SubTrailingSpace(DropLeadingSpace(Tail(content)), form)
    ELSE <<Head(content)>> \o SubTrailingSpace(Tail(content), form)

FingerprintPrefix == 200

generate_session_id(msgs, timestamp) ==
    [timestamp |-> timestamp,
     first_msg |-> IF msgs # <<>> THEN msgs[1].content ELSE <<>>]

inject_session_id_marker(response_text, session_id) ==
    response_text \o << Ch("\n"), Ch("\n"), Marker("md", session_id) >>

\* re.search of one marker form in one content: the id of the first match
FirstMarker(content, form) ==
    IF \E i \in 1..Len(content) : content[i].form = form
    THEN content[CHOOSE i \in 1..Len(content) :
                    /\ content[i].form = form
                    /\ \A j \in 1..(i - 1) : content[j].form # form].id
    ELSE NoSessionId

RECURSIVE extract_session_id(_)
extract_session_id(msgs) ==
    IF msgs = <<>> THEN NoSessionId
    ELSE LET content == Head(msgs).content IN
         IF FirstMarker(content, "md") # NoSessionId
         THEN FirstMarker(content, "md")
         ELSE IF FirstMarker(content, "html") # NoSessionId
         THEN FirstMarker(content, "html")
         ELSE IF FirstMarker(content, "xml") # NoSessionId
         THEN FirstMarker(content, "xml")
         ELSE extract_session_id(Tail(msgs))

strip_session_id_marker(content) ==
    RStrip(SubLeadingNewlines(
               SubTrailingSpace(SubLeadingNewlines(content, "md"), "html"),
               "xml"))

\* the content of the first message of a role, <<>> when there is none
FirstOfRole(msgs, role) ==
    IF \E i \in 1..Len(msgs) : msgs[i].role = role
    THEN msgs[CHOOSE i \in 1..Len(msgs) :
                 /\ msgs[i].role = role
                 /\ \A j \in 1..(i - 1) : msgs[j].role # role].content
    ELSE <<>>

generate_conversation_fingerprint(msgs) ==
    LET first_user == FirstOfRole(msgs, "user")
        first_assistant == FirstOfRole(msgs, "assistant")
    IN IF first_user = <<>> \/ first_assistant = <<>>
       THEN NoFingerprint
       ELSE [first_user |-> Prefix(first_user, FingerprintPrefix),
             first_assistant |-> Prefix(first_assistant, FingerprintPrefix)]

\* GameSession.objects.filter(conversation_fingerprint=...).first()
FirstByFingerprint(table, fingerprint) ==
    IF \E i \in 1..Len(table) : table[i].conversation_fingerprint = fingerprint
    THEN table[CHOOSE i \in 1..Len(table) :
                  /\ table[i].conversation_fingerprint = fingerprint
                  /\ \A j \in 1..(i - 1) :
                        table[j].conversation_fingerprint # fingerprint].session_id
    ELSE NoSessionId

\* the loop of process_messages: drop system messages, strip the markers
FilterMessages(msgs) ==
    LET kept == SelectSeq(msgs, LAMBDA m : m.role # "system")
    IN [i \in 1..Len(kept) |->
           [kept[i] EXCEPT !.content = strip_session_id_marker(kept[i].content)]]

process_messages(msgs, table) ==
    LET extracted == extract_session_id(msgs)
        filtered_messages == FilterMessages(msgs)
        conversation_fingerprint ==
            generate_conversation_fingerprint(filtered_messages)
    IN [filtered_messages |-> filtered_messages,
        session_id |->
            IF extracted = NoSessionId /\ conversation_fingerprint # NoFingerprint
            THEN FirstByFingerprint(table, conversation_fingerprint)
            ELSE extracted,
        conversation_fingerprint |-> conversation_fingerprint]

\* GameSession.objects.get_or_create(session_id=..., defaults={...})
GetOrCreateSession(table, session_id, conversation_fingerprint) ==
    IF \E i \in 1..Len(table) : table[i].session_id = session_id
    THEN table
    ELSE Append(table, [session_id |-> session_id,
                        conversation_fingerprint |-> conversation_fingerprint])

\* handle_base_mode after its storyteller call returned story_turn: the
\* answer it sends, the session id it returns and the rows it leaves
handle_base_mode(filtered_messages, session_id, conversation_fingerprint, story_turn, timestamp, table) ==
    IF session_id = NoSessionId /\ Len(filtered_messages) = 1
    THEN LET generated == generate_session_id(filtered_messages, timestamp)
         IN [content |-> inject_session_id_marker(story_turn, generated),
             session_id |-> generated,
             generated |-> TRUE,
             table |-> IF conversation_fingerprint # NoFingerprint
                       THEN GetOrCreateSession(table, generated,
                                               conversation_fingerprint)
                       ELSE table]
    ELSE [content |-> story_turn, session_id |-> session_id,
          generated |-> FALSE, table |-> table]

\* what the player types and what the storyteller returns in this model
PlayerTexts == { Str(<<"g", "o">>), <<>> }

OwuiStoryTexts == { Str(<<"o", "k">>), Str(<<"o", "k", "\n">>), <<>> }

OwuiOutcomes == { Returned(t) : t \in OwuiStoryTexts } \cup { Raised }

NoOwuiRequest ==
    [requests |-> 0, failed |-> FALSE, had_marker |-> FALSE,
     session_id |-> NoSessionId, conversation_fingerprint |-> NoFingerprint,
     generated |-> NoSessionId, generated_at |-> 0]

\* one chat-completion request of the client: it sends its whole
\* conversation with the new player message; the endpoint hands the
\* messages to process_messages and its three results to handle_base_mode;
\* the client keeps the answer, marker included, as the next assistant
\* message.  A storyteller call that raises leaves the player message
\* unanswered.
OwuiChatCompletion ==
    /\ requests_left > 0
    /\ \E text \in PlayerTexts, outcome \in OwuiOutcomes, timestamp \in 1..MaxTimestamp :
          LET request == Append(owui_messages, [role |-> "user", content |-> text])
              processed == process_messages(request, session_table)
              handled == handle_base_mode(processed.filtered_messages,
                                          processed.session_id,
                                          processed.conversation_fingerprint,
                                          outcome.text, timestamp, session_table)
              seen == [owui EXCEPT
                         !.requests = @ + 1,
                         !.failed = outcome.raised,
                         !.had_marker = extract_session_id(request) # NoSessionId,
                         !.session_id = processed.session_id,
                         !.conversation_fingerprint = processed.conversation_fingerprint]
          IN /\ requests_left' = requests_left - 1
             /\ IF outcome.raised
                THEN /\ owui_messages' = request
                     /\ session_table' = session_table
                     /\ owui' = seen
                ELSE /\ owui_messages' =
                            Append(request, [role |-> "assistant",
                                             content |-> handled.content])
                     /\ session_table' = handled.table
                     /\ owui' = IF handled.generated
                                THEN [seen EXCEPT !.generated = handled.session_id,
                                                  !.generated_at = seen.requests]
                                ELSE seen
    /\ UNCHANGED <<config, llm_calls, refusalVars, judge, messages, game_session,
                   chat, response, last_death_check, probe, cacheVars>>

\* an intermediary between the client and the endpoint removes the markers
\* from the stored conversation, with or without the line break before them
IntermediaryStripsMarkers ==
    /\ extract_session_id(owui_messages) # NoSessionId
    /\ \E trim \in BOOLEAN :
          owui_messages' =
              [i \in 1..Len(owui_messages) |->
                  [owui_messages[i] EXCEPT
                      !.content = IF trim
                                  THEN strip_session_id_marker(@)
                                  ELSE SelectSeq(@, LAMBDA tok : tok.form = "char")]]
    /\ UNCHANGED <<config, llm_calls, refusalVars, judge, messages, game_session,
                   chat, response, last_death_check, requests_left,
                   session_table, owui, probe, cacheVars>>

\* a new conversation, with or without a system message of the client
InitOwui ==
    /\ owui_messages \in { <<>>, << [role |-> "system", content |-> Str(<<"s">>)] >> }
    /\ session_table = <<>>
    /\ owui = NoOwuiRequest

(***************************************************************************)
(* Direct calls of the answer parsers: _parse_boolean_response and the     *)
(* decision of detect_refusal on a returned classifier response.           *)
(***************************************************************************)
\* the pieces the answers of this model are put together from
AnswerPieces ==
    { <<>>, <<" ">>, <<"x">>, <<"Y","e","s">>, <<"y","e","s">>, <<"T","R","U","E">>,
      <<"p","a","s","s">>, <<"n","o">>, <<"F","a","l","s","e">>,
      <<"f","a","i","l">>, <<"m","a","y","b","e">> }

\* the answers made of at most n pieces
RECURSIVE AnswersOf(_)
AnswersOf(n) ==
    IF n = 0 THEN { <<>> }
    ELSE { a \o piece : a \in AnswersOf(n - 1), piece \in AnswerPieces }

NoProbe ==
    [called |-> FALSE, text |-> <<>>, default |-> FALSE, parsed |-> FALSE,
     is_refusal |-> FALSE]

\* the caller's arguments
InitProbe ==
    \E text \in AnswersOf(MaxPieces), default \in BOOLEAN :
        probe = [NoProbe EXCEPT !.text = text, !.default = default]

\* _parse_boolean_response(text, default) and detect_refusal on a classifier
\* call that returned text
CallParsers ==
    /\ ~probe.called
    /\ probe' = [probe EXCEPT
                   !.called = TRUE,
                   !.parsed = _parse_boolean_response(probe.text, probe.default),
                   !.is_refusal = detect_refusal(TRUE, "set", Returned(probe.text)).is_refusal]
    /\ UNCHANGED <<config, llm_calls, refusalVars, judge, messages, game_session,
                   chat, response, last_death_check, requests_left, owuiVars,
                   cacheVars>>

(***************************************************************************)
(* Response synchronization cache, cache_utils.ResponseCache.  Threads     *)
(* call set, get, wait_for and cleanup_old_entries on the one instance;    *)
(* every statement that reads or writes self._cache is a step of its own.  *)
(***************************************************************************)
CacheThreads == { 1, 2 }

CacheKeys == { "k1" }

\* None as a cached value or as the result of get
CacheNone == Txt("none", 0, 0)

CacheValues == { Txt("story", 1, 0), Txt("story", 2, 0) }

\* the 30 second TTL of get
CacheTTL == 30

\* the arguments the callers of this model pass
WaitTimeouts == { 0, 30 }

PollIntervals == { 0, 1 }

MaxAges == { 0, 30, 300 }

\* the amounts the clock advances by between two steps
TickSteps == { 30, 31 }

NoEntry == [present |-> FALSE, value |-> CacheNone, timestamp |-> 0]

NoSet == [happened |-> FALSE, value |-> CacheNone, time |-> 0, swept |-> FALSE]

\* a thread outside the cache; the locals of an operation are dropped when
\* it returns
IdleThread ==
    [op |-> "none", inner |-> "none", pc |-> "idle", key |-> "k1",
     value |-> CacheNone, timeout |-> 0, poll_interval |-> 0, max_age |-> 0,
     start_time |-> 0, wake |-> 0, keys_to_delete |-> {},
     result |-> CacheNone, error |-> FALSE, seen |-> NoSet, read_time |-> 0,
     end_time |-> 0]

InitCache ==
    /\ cache = [k \in CacheKeys |-> NoEntry]
    /\ lock = FALSE
    /\ now = 0
    /\ thr = [t \in CacheThreads |-> IdleThread]
    /\ last_set = [k \in CacheKeys |-> NoSet]
    /\ cache_ops_left = MaxCacheOps

notCacheVars == <<config, llm_calls, refusalVars, judge, messages, game_session, chat, response, last_death_check, requests_left, owuiVars, probe>>

\* a lock that lets every thread in
LockFree_always(l) == TRUE

\* threading.Lock: acquire goes through when no thread holds the lock
LockFree(l) == ~l

\* an entry that expires when its age reaches the TTL
Expired_at_ttl(age) == age >= CacheTTL

\* age > 30 in get
Expired(age) == age > CacheTTL

\* the loop condition with the comparison turned around
wait_for_continues_inverted(elapsed, timeout) == elapsed > timeout

\* (time.time() - start_time) < timeout, the loop condition of wait_for
wait_for_continues(elapsed, timeout) == elapsed < timeout

\* a thread whose operation returned (error: it raised)
Returned_(r, error) == [IdleThread EXCEPT !.error = error]

\* the with block of set, get or cleanup_old_entries is left: the operation
\* returns or raises, or wait_for goes on with the value of its poll
AfterInner(r, error) ==
    IF r.op = "wait_for" /\ ~error
    THEN [r EXCEPT !.pc = "wf_got"]
    ELSE Returned_(r, error)

\* a thread calls set
CacheCallSet(t) ==
    /\ thr[t].pc = "idle"
    /\ cache_ops_left > 0
    /\ cache_ops_left' = cache_ops_left - 1
    /\ \E key \in CacheKeys, value \in CacheValues :
          thr' = [thr EXCEPT ![t] = [IdleThread EXCEPT
                     !.op = "set", !.inner = "set", !.pc = "lock",
                     !.key = key, !.value = value]]
    /\ UNCHANGED <<cache, lock, now, last_set, notCacheVars>>

\* a thread calls get
CacheCallGet(t) ==
    /\ thr[t].pc = "idle"
    /\ cache_ops_left > 0
    /\ cache_ops_left' = cache_ops_left - 1
    /\ \E key \in CacheKeys :
          thr' = [thr EXCEPT ![t] = [IdleThread EXCEPT
                     !.op = "get", !.inner = "get", !.pc = "lock",
                     !.key = key]]
    /\ UNCHANGED <<cache, lock, now, last_set, notCacheVars>>

\* a thread calls cleanup_old_entries
CacheCallCleanup(t) ==
    /\ thr[t].pc = "idle"
    /\ cache_ops_left > 0
    /\ cache_ops_left' = cache_ops_left - 1
    /\ \E max_age \in MaxAges :
          thr' = [thr EXCEPT ![t] = [IdleThread EXCEPT
                     !.op = "cleanup", !.inner = "cleanup", !.pc = "lock",
                     !.max_age = max_age]]
    /\ UNCHANGED <<cache, lock, now, last_set, notCacheVars>>

\* a thread calls wait_for: start_time = time.time()
CacheCallWaitFor(t) ==
    /\ thr[t].pc = "idle"
    /\ cache_ops_left > 0
    /\ cache_ops_left' = cache_ops_left - 1
    /\ \E key \in CacheKeys, timeout \in WaitTimeouts, poll_interval \in PollIntervals :
          /\ now + timeout + poll_interval + 31 <= MaxTime
          /\ thr' = [thr EXCEPT ![t] = [IdleThread EXCEPT
                        !.op = "wait_for", !.inner = "get", !.pc = "wf_test",
                        !.key = key, !.timeout = timeout,
                        !.poll_interval = poll_interval, !.start_time = now]]
    /\ UNCHANGED <<cache, lock, now, last_set, notCacheVars>>

\* with self._lock:
AcquireLock(t) ==
    /\ thr[t].pc = "lock"
    /\ LockFree(lock)
    /\ lock' = TRUE
    /\ thr' = [thr EXCEPT ![t].pc =
                  CASE thr[t].inner = "set" -> "set_store"
                    [] thr[t].inner = "get" -> "get_check"
                    [] OTHER -> "cleanup_collect"]
    /\ UNCHANGED <<cache, now, last_set, cache_ops_left, notCacheVars>>

\* set: self._cache[key] = {'value': value, 'timestamp': time.time()}
SetStore(t) ==
    /\ thr[t].pc = "set_store"
    /\ cache' = [cache EXCEPT ![thr[t].key] =
                    [present |-> TRUE, value |-> thr[t].value, timestamp |-> now]]
    /\ last_set' = [last_set EXCEPT ![thr[t].key] =
                       [happened |-> TRUE, value |-> thr[t].value, time |-> now,
                        swept |-> FALSE]]
    /\ lock' = FALSE
    /\ thr' = [thr EXCEPT ![t] = AfterInner(thr[t], FALSE)]
    /\ UNCHANGED <<now, cache_ops_left, notCacheVars>>

\* get: if key in self._cache ... else return None
GetCheck(t) ==
    /\ thr[t].pc = "get_check"
    /\ IF cache[thr[t].key].present
       THEN thr' = [thr EXCEPT ![t].pc = "get_read"]
       ELSE thr' = [thr EXCEPT ![t].pc = "get_return",
                               ![t].result = CacheNone,
                               ![t].seen = last_set[thr[t].key],
                               ![t].read_time = now]
    /\ UNCHANGED <<cache, lock, now, last_set, cache_ops_left, notCacheVars>>

\* get: entry = self._cache[key]; age = time.time() - entry['timestamp'];
\* return entry['value'] unless age > 30
GetRead(t) ==
    /\ thr[t].pc = "get_read"
    /\ LET entry == cache[thr[t].key]
           seen == [thr[t] EXCEPT !.seen = last_set[thr[t].key],
                                  !.read_time = now]
       IN IF ~entry.present
          THEN /\ thr' = [thr EXCEPT ![t] = AfterInner(thr[t], TRUE)]
               /\ lock' = FALSE
          ELSE IF Expired(now - entry.timestamp)
          THEN /\ thr' = [thr EXCEPT ![t] = [seen EXCEPT !.pc = "get_evict"]]
               /\ UNCHANGED lock
          ELSE /\ thr' = [thr EXCEPT ![t] = [seen EXCEPT !.pc = "get_return",
                                                         !.result = entry.value]]
               /\ UNCHANGED lock
    /\ UNCHANGED <<cache, now, last_set, cache_ops_left, notCacheVars>>

\* get: del self._cache[key]; return None
GetEvict(t) ==
    /\ thr[t].pc = "get_evict"
    /\ IF ~cache[thr[t].key].present
       THEN /\ thr' = [thr EXCEPT ![t] = AfterInner(thr[t], TRUE)]
            /\ lock' = FALSE
            /\ UNCHANGED cache
       ELSE /\ cache' = [cache EXCEPT ![thr[t].key] = NoEntry]
            /\ thr' = [thr EXCEPT ![t].pc = "get_return",
                                  ![t].result = CacheNone]
            /\ UNCHANGED lock
    /\ UNCHANGED <<now, last_set, cache_ops_left, notCacheVars>>

\* get: the with block is left with the value to return
GetReturn(t) ==
    /\ thr[t].pc = "get_return"
    /\ lock' = FALSE
    /\ thr' = [thr EXCEPT ![t] = AfterInner(thr[t], FALSE)]
    /\ UNCHANGED <<cache, now, last_set, cache_ops_left, notCacheVars>>

\* cleanup_old_entries: current_time = time.time(); keys_to_delete = [...]
CleanupCollect(t) ==
    /\ thr[t].pc = "cleanup_collect"
    /\ thr' = [thr EXCEPT ![t].pc = "cleanup_delete",
                          ![t].keys_to_delete =
                              { k \in CacheKeys :
                                  /\ cache[k].present
                                  /\ now - cache[k].timestamp > thr[t].max_age }]
    /\ UNCHANGED <<cache, lock, now, last_set, cache_ops_left, notCacheVars>>

\* cleanup_old_entries: for key in keys_to_delete: del self._cache[key]
CleanupDelete(t) ==
    /\ thr[t].pc = "cleanup_delete"
    /\ IF thr[t].keys_to_delete = {}
       THEN /\ thr' = [thr EXCEPT ![t] = AfterInner(thr[t], FALSE)]
            /\ lock' = FALSE
            /\ UNCHANGED <<cache, last_set>>
       ELSE \E key \in thr[t].keys_to_delete :
               IF ~cache[key].present
               THEN /\ thr' = [thr EXCEPT ![t] = AfterInner(thr[t], TRUE)]
                    /\ lock' = FALSE
                    /\ UNCHANGED <<cache, last_set>>
               ELSE /\ cache' = [cache EXCEPT ![key] = NoEntry]
                    /\ last_set' = [last_set EXCEPT ![key].swept = TRUE]
                    /\ thr' = [thr EXCEPT ![t].keys_to_delete = @ \ {key}]
                    /\ UNCHANGED lock
    /\ UNCHANGED <<now, cache_ops_left, notCacheVars>>

\* wait_for: while (time.time() - start_time) < timeout: ... self.get(key)
WaitForTest(t) ==
    /\ thr[t].pc = "wf_test"
    /\ IF wait_for_continues(now - thr[t].start_time, thr[t].timeout)
       THEN thr' = [thr EXCEPT ![t].pc = "lock"]
       ELSE thr' = [thr EXCEPT ![t].pc = "wf_return", ![t].result = CacheNone,
                               ![t].end_time = now]
    /\ UNCHANGED <<cache, lock, now, last_set, cache_ops_left, notCacheVars>>

\* wait_for: if value is not None: return value; time.sleep(poll_interval)
WaitForPolled(t) ==
    /\ thr[t].pc = "wf_got"
    /\ IF thr[t].result # CacheNone
       THEN thr' = [thr EXCEPT ![t].pc = "wf_return", ![t].end_time = now]
       ELSE thr' = [thr EXCEPT ![t].pc = "wf_sleep",
                               ![t].wake = now + thr[t].poll_interval]
    /\ UNCHANGED <<cache, lock, now, last_set, cache_ops_left, notCacheVars>>

\* wait_for: time.sleep(poll_interval) returns
WaitForWakes(t) ==
    /\ thr[t].pc = "wf_sleep"
    /\ now >= thr[t].wake
    /\ thr' = [thr EXCEPT ![t].pc = "wf_test"]
    /\ UNCHANGED <<cache, lock, now, last_set, cache_ops_left, notCacheVars>>

\* wait_for returns
WaitForReturn(t) ==
    /\ thr[t].pc = "wf_return"
    /\ thr' = [thr EXCEPT ![t] = Returned_(thr[t], FALSE)]
    /\ UNCHANGED <<cache, lock, now, last_set, cache_ops_left, notCacheVars>>

\* time passes; past MaxTime only as long as a thread sleeps
Tick ==
    /\ \E d \in TickSteps :
          /\ \/ now + d <= MaxTime
             \/ \E t \in CacheThreads :
                   thr[t].pc = "wf_sleep" /\ now < thr[t].wake
          /\ now' = now + d
    /\ UNCHANGED <<cache, lock, thr, last_set, cache_ops_left, notCacheVars>>

\* the steps of a thread inside an operation
Running(t) ==
    \/ AcquireLock(t)
    \/ SetStore(t)
    \/ GetCheck(t)
    \/ GetRead(t)
    \/ GetEvict(t)
    \/ GetReturn(t)
    \/ CleanupCollect(t)
    \/ CleanupDelete(t)
    \/ WaitForTest(t)
    \/ WaitForPolled(t)
    \/ WaitForWakes(t)
    \/ WaitForReturn(t)

(***************************************************************************)
(* Configurations.                                                         *)
(***************************************************************************)
BaseConfig ==
    [present |-> TRUE, storyteller_model |-> TRUE, adventure_prompt |-> TRUE,
     game_ending_prompt |-> TRUE, game_ending_turn_correction_prompt |-> FALSE,
     difficulty |-> "None", total_turns |-> 5,
     enable_refusal_detection |-> TRUE, classifier_model |-> TRUE,
     classifier_prompt |-> "set", turn_correction_model |-> TRUE,
     turn_correction_prompt |-> TRUE, judge_steps |-> {}]

\* `config` is None
NoConfig ==
    [BaseConfig EXCEPT !.present = FALSE, !.storyteller_model = FALSE,
                       !.adventure_prompt = FALSE, !.game_ending_prompt = FALSE,
                       !.enable_refusal_detection = FALSE,
                       !.classifier_model = FALSE, !.classifier_prompt = "none",
                       !.turn_correction_model = FALSE,
                       !.turn_correction_prompt = FALSE]

\* one JudgeStep row
JudgeStep(id, order, enabled, classifier, max_rewrite_attempts, rewrite_prompt, compare_prompt) ==
    [id |-> id, order |-> order, enabled |-> enabled,
     classifier_prompt |-> classifier, classifier_model |-> classifier,
     max_rewrite_attempts |-> max_rewrite_attempts,
     rewrite_prompt |-> rewrite_prompt, compare_prompt |-> compare_prompt]

\* the rows a step with the given id and order is drawn from
StepChoices(id, order, attempts) ==
    { JudgeStep(id, order, e, c, m, TRUE, TRUE) :
          e \in BOOLEAN, c \in BOOLEAN, m \in attempts }
    \cup { JudgeStep(id, order, TRUE, FALSE, 1, FALSE, TRUE),
           JudgeStep(id, order, TRUE, FALSE, 1, TRUE, FALSE) }

\* the judge_steps of the configurations of the pipeline runs: no row, one
\* row, or two rows in either order
JudgeStepSets ==
    {{}}
    \cup { {s} : s \in StepChoices(1, 0, (-1)..MaxRewriteAttempts) }
    \cup { {s, t} : s \in StepChoices(1, 1, {-1} \cup 1..MaxAttemptsCfg),
                    t \in UNION { StepChoices(2, o, {-1} \cup 1..MaxAttemptsCfg)
                                  : o \in {0, 1} } }

JudgeConfigs ==
    { [BaseConfig EXCEPT !.judge_steps = S] : S \in JudgeStepSets }
    \cup { NoConfig }

RefusalConfigs ==
    { [BaseConfig EXCEPT !.enable_refusal_detection = e,
                         !.classifier_model = cm,
                         !.classifier_prompt = cp,
                         !.turn_correction_model = tm,
                         !.turn_correction_prompt = tp,
                         !.game_ending_turn_correction_prompt = gc,
                         !.game_ending_prompt = ge] :
          e \in BOOLEAN, cm \in BOOLEAN, cp \in {"none", "empty", "set"},
          tm \in BOOLEAN, tp \in BOOLEAN, gc \in BOOLEAN, ge \in BOOLEAN }

\* the judge step of the chat configurations
ChatJudgeStep(classifier) == JudgeStep(1, 0, TRUE, classifier, 1, TRUE, TRUE)

ChatConfigs ==
    { [BaseConfig EXCEPT !.difficulty = "quadratic",
                         !.judge_steps = {ChatJudgeStep(FALSE)}],
      [BaseConfig EXCEPT !.difficulty = "always"],
      [BaseConfig EXCEPT !.difficulty = "quadratic",
                         !.turn_correction_model = FALSE],
      [BaseConfig EXCEPT !.enable_refusal_detection = FALSE,
                         !.judge_steps = {ChatJudgeStep(TRUE)}],
      [BaseConfig EXCEPT !.storyteller_model = FALSE],
      NoConfig }

(***************************************************************************)
(* Specifications.                                                         *)
(***************************************************************************)
InitRun ==
    /\ llm_calls = <<>>
    /\ r_pc = "idle"
    /\ r_args = NoArgs
    /\ refusal_result = InitialRefusalResult(Empty)
    /\ attempts_remaining = 0
    /\ current_attempt = 0
    /\ corrected_turn = Empty
    /\ judge = IdleJudge
    /\ messages = <<>>
    /\ game_session = NoSession
    /\ chat = IdleChat
    /\ response = NoResponse
    /\ last_death_check = NoDeathCheck
    /\ requests_left = MaxRequests
    /\ InitOwui
    /\ probe = NoProbe
    /\ InitCache

\* the chat application: one conversation, requests one at a time
Init ==
    /\ config \in ChatConfigs
    /\ InitRun

Next ==
    \/ ChatSend
    \/ ChatStorytellerFailed
    \/ ChatStorytellerReturned
    \/ RefusalClassified
    \/ CorrectionGenerated
    \/ CorrectionFailed
    \/ CorrectionClassified
    \/ ChatRefusalReturned
    \/ JudgeClassified
    \/ JudgeRewritten
    \/ JudgeCompared
    \/ ChatJudgeReturned
    \/ ChatDelete

Spec == Init /\ [][Next]_vars

\* one call of process_potential_refusal on arguments of the caller's choice
CallRefusal ==
    /\ r_pc = "idle"
    /\ \E turn_number \in 1..MaxTurnArg, max_retries \in 1..MaxRetries,
          is_game_ending \in BOOLEAN :
          process_potential_refusal(Txt("story", 0, 0), turn_number,
                                    max_retries, is_game_ending)
    /\ UNCHANGED <<config, judge, chatVars>>

InitRefusal ==
    /\ config \in RefusalConfigs
    /\ InitRun

NextRefusal ==
    \/ CallRefusal
    \/ RefusalClassified
    \/ CorrectionGenerated
    \/ CorrectionFailed
    \/ CorrectionClassified

SpecRefusal == InitRefusal /\ [][NextRefusal]_vars

\* one call of run_judge_pipeline on a configuration of the caller's choice
CallJudge ==
    /\ judge.pc = "idle"
    /\ JudgeBecomes(run_judge_pipeline(Txt("story", 0, 0), config, llm_calls))
    /\ UNCHANGED <<config, refusalVars, chatVars>>

InitJudge ==
    /\ config \in JudgeConfigs
    /\ InitRun

NextJudge ==
    \/ CallJudge
    \/ JudgeClassified
    \/ JudgeRewritten
    \/ JudgeCompared

SpecJudge == InitJudge /\ [][NextJudge]_vars

\* the difficulty profiles of the calls of should_trigger_death: expressions
\* of probability 1 and 0, above 1, below 0, the documented example
\* '0.05 + 0.35 * (x/n)**2', and one that does not evaluate
DeathProfiles ==
    { "always", "never", "overshoot", "negative", "quadratic", "broken" }

\* the values of random.random() in these calls, a value of [0, 1)
DeathRolls == { 0, 1000, 1375, 2000, Scale - 1 }

\* the sessions of these calls: None, or a row with max_turns 0 or 4
DeathSessions ==
    { NoSession }
    \cup { [NoSession EXCEPT !.exists = TRUE, !.max_turns = n, !.game_over = g] :
               n \in {0, 4}, g \in BOOLEAN }

\* calls of should_trigger_death on arguments of the caller's choice
CallDeathCheck ==
    /\ \E turn_number \in 1..MaxDeathTurn, roll \in DeathRolls :
          LET check == should_trigger_death(turn_number, game_session.max_turns,
                                            config.difficulty, game_session, roll)
          IN /\ game_session' = check.session
             /\ last_death_check' =
                    [called |-> TRUE, turn_number |-> turn_number,
                     was_over |-> game_session.game_over,
                     returned |-> check.will_die, rolled |-> check.rolled,
                     roll |-> IF check.rolled THEN roll ELSE NoValue,
                     before |-> game_session, after |-> check.session]
    /\ UNCHANGED <<config, llm_calls, refusalVars, judge, messages, chat,
                   response, requests_left, owuiVars, probe, cacheVars>>

InitDeath ==
    /\ config \in { [BaseConfig EXCEPT !.difficulty = p] : p \in DeathProfiles }
    /\ game_session \in DeathSessions
    /\ llm_calls = <<>>
    /\ r_pc = "idle"
    /\ r_args = NoArgs
    /\ refusal_result = InitialRefusalResult(Empty)
    /\ attempts_remaining = 0
    /\ current_attempt = 0
    /\ corrected_turn = Empty
    /\ judge = IdleJudge
    /\ messages = <<>>
    /\ chat = IdleChat
    /\ response = NoResponse
    /\ last_death_check = NoDeathCheck
    /\ requests_left = MaxRequests
    /\ InitOwui
    /\ probe = NoProbe
    /\ InitCache

NextDeath == CallDeathCheck

SpecDeath == InitDeath /\ [][NextDeath]_vars

\* the ChatMessage rows earlier requests of a conversation left: `failed`
\* player messages of requests that ended in the 500 branch, followed by
\* `answered` player messages with their stored answers
RECURSIVE History(_, _)
History(failed, answered) ==
    IF answered > 0
    THEN History(failed, answered - 1)
             \o << [role |-> "user", content |-> UserText],
                   [role |-> "assistant", content |-> Txt("story", 0, 0)] >>
    ELSE IF failed > 0
    THEN History(failed - 1, 0) \o << [role |-> "user", content |-> UserText] >>
    ELSE <<>>

\* the GameSession row those requests left: created by the first of them,
\* turn_number as the last of them computed it from its 20-message window
SessionAfter(history) ==
    IF history = <<>> THEN NoSession
    ELSE LET seen == IF history[Len(history)].role = "assistant"
                     THEN SubSeq(history, 1, Len(history) - 1)
                     ELSE history
         IN [NoSession EXCEPT
               !.exists = TRUE,
               !.max_turns = BaseConfig.total_turns,
               !.turn_number = calculate_turn_number(LastN(seen, HistoryWindow))]

\* send-message requests on a conversation that already has a history,
\* under a configuration without difficulty profile, refusal detection and
\* judge steps
InitTurns ==
    /\ config = [BaseConfig EXCEPT !.enable_refusal_detection = FALSE]
    /\ \E failed \in 0..1, answered \in 0..MaxAnswered :
          /\ messages = History(failed, answered)
          /\ game_session = SessionAfter(messages)
    /\ llm_calls = <<>>
    /\ r_pc = "idle"
    /\ r_args = NoArgs
    /\ refusal_result = InitialRefusalResult(Empty)
    /\ attempts_remaining = 0
    /\ current_attempt = 0
    /\ corrected_turn = Empty
    /\ judge = IdleJudge
    /\ chat = IdleChat
    /\ response = NoResponse
    /\ last_death_check = NoDeathCheck
    /\ requests_left = MaxRequests
    /\ InitOwui
    /\ probe = NoProbe
    /\ InitCache

NextTurns ==
    \/ ChatSend
    \/ ChatStorytellerFailed
    \/ ChatStorytellerReturned
    \/ ChatRefusalReturned
    \/ ChatJudgeReturned

SpecTurns == InitTurns /\ [][NextTurns]_vars

\* the OpenAI-compatible endpoint in base mode: one conversation of one
\* client, requests one at a time
InitSession ==
    /\ config = BaseConfig
    /\ InitRun

NextSession ==
    \/ OwuiChatCompletion
    \/ IntermediaryStripsMarkers

SpecSession == InitSession /\ [][NextSession]_vars

\* the two parsers called directly on an answer
InitParsers ==
    /\ config = BaseConfig
    /\ llm_calls = <<>>
    /\ r_pc = "idle"
    /\ r_args = NoArgs
    /\ refusal_result = InitialRefusalResult(Empty)
    /\ attempts_remaining = 0
    /\ current_attempt = 0
    /\ corrected_turn = Empty
    /\ judge = IdleJudge
    /\ messages = <<>>
    /\ game_session = NoSession
    /\ chat = IdleChat
    /\ response = NoResponse
    /\ last_death_check = NoDeathCheck
    /\ requests_left = MaxRequests
    /\ owui_messages = <<>>
    /\ session_table = <<>>
    /\ owui = NoOwuiRequest
    /\ InitProbe
    /\ InitCache

NextParsers == CallParsers

SpecParsers == InitParsers /\ [][NextParsers]_vars

\* the threads of one process on the one ResponseCache instance
InitCacheRun ==
    /\ config = BaseConfig
    /\ InitRun
    /\ owui_messages = <<>>

NextCache ==
    \/ \E t \in CacheThreads : CacheCallSet(t)
    \/ \E t \in CacheThreads : CacheCallGet(t)
    \/ \E t \in CacheThreads : CacheCallCleanup(t)
    \/ \E t \in CacheThreads : CacheCallWaitFor(t)
    \/ \E t \in CacheThreads : AcquireLock(t)
    \/ \E t \in CacheThreads : SetStore(t)
    \/ \E t \in CacheThreads : GetCheck(t)
    \/ \E t \in CacheThreads : GetRead(t)
    \/ \E t \in CacheThreads : GetEvict(t)
    \/ \E t \in CacheThreads : GetReturn(t)
    \/ \E t \in CacheThreads : CleanupCollect(t)
    \/ \E t \in CacheThreads : CleanupDelete(t)
    \/ \E t \in CacheThreads : WaitForTest(t)
    \/ \E t \in CacheThreads : WaitForPolled(t)
    \/ \E t \in CacheThreads : WaitForWakes(t)
    \/ \E t \in CacheThreads : WaitForReturn(t)
    \/ Tick

SpecCache == InitCacheRun /\ [][NextCache]_vars

\* thread 1 waits for a key while thread 2 sets and gets it
NextWait ==
    \/ CacheCallWaitFor(1)
    \/ CacheCallSet(2)
    \/ CacheCallGet(2)
    \/ \E t \in CacheThreads : AcquireLock(t)
    \/ \E t \in CacheThreads : SetStore(t)
    \/ \E t \in CacheThreads : GetCheck(t)
    \/ \E t \in CacheThreads : GetRead(t)
    \/ \E t \in CacheThreads : GetEvict(t)
    \/ \E t \in CacheThreads : GetReturn(t)
    \/ \E t \in CacheThreads : WaitForTest(t)
    \/ \E t \in CacheThreads : WaitForPolled(t)
    \/ \E t \in CacheThreads : WaitForWakes(t)
    \/ \E t \in CacheThreads : WaitForReturn(t)
    \/ Tick

SpecWait == InitCacheRun /\ [][NextWait]_vars

\* a thread inside an operation is scheduled again and again, a released
\* lock is handed to a thread that waits for it, and time passes
SpecWaitFair ==
    /\ SpecWait
    /\ \A t \in CacheThreads : WF_vars(Running(t))
    /\ WF_vars(Tick)

\* process_potential_refusal runs synchronously and every Generator call
\* returns or raises within its timeout, so a started run keeps stepping
SpecRefusalFair == SpecRefusal /\ WF_vars(NextRefusal)

(***************************************************************************)
(* Properties.                                                             *)
(***************************************************************************)
\* the number of Generator calls of the run issued at the given site
CallsAt(site) ==
    Cardinality({ i \in DOMAIN llm_calls : llm_calls[i].site = site })

\* C1: once the session is game_over, a call of should_trigger_death for it
\* returns true, draws no roll and leaves last_death_roll and
\* last_death_probability as they were.
C1_GameOverCheckIsIdempotent ==
    (last_death_check.called /\ last_death_check.was_over)
        => /\ last_death_check.returned
           /\ ~last_death_check.rolled
           /\ last_death_check.after.last_death_roll
                  = last_death_check.before.last_death_roll
           /\ last_death_check.after.last_death_probability
                  = last_death_check.before.last_death_probability

\* a send-message request ran the ending check on a session that was
\* already game_over
C1_Witness ==
    /\ last_death_check.called
    /\ last_death_check.was_over
    /\ last_death_check.turn_number = 2
    /\ chat.use_game_ending_prompt

\* C2: called with turn_number = 1 the ending check returns false, whatever
\* the difficulty profile, and neither draws nor stores a roll.
C2_Turn1NeverTriggers ==
    (last_death_check.called /\ last_death_check.turn_number = 1)
        => /\ ~last_death_check.returned
           /\ ~last_death_check.rolled
           /\ last_death_check.after = last_death_check.before
           /\ last_death_check.after.last_death_roll = NoValue

\* the ending check ran on turn 1 under the profile of probability 1
C2_Witness ==
    /\ last_death_check.called
    /\ last_death_check.turn_number = 1
    /\ config.difficulty = "always"
    /\ chat.pc = "storyteller"
    /\ ~game_session.game_over

\* C3: game_over is a one-way latch: no step of a send-message request or of
\* a delete request takes it from true back to false.
C3_GameOverIsLatch ==
    [][game_session.game_over => game_session'.game_over]_vars

\* a whole send-message request ran to its stored answer on a session that
\* was game_over when the request came in
C3_Witness ==
    /\ game_session.game_over
    /\ last_death_check.was_over
    /\ chat.pc = "idle"
    /\ response.judged
    /\ Len(messages) = 2 * MaxRequests

\* C4: when the refusal result has turn_1_refusal or all_attempts_failed,
\* the stored and returned assistant message is the fixed fallback text, the
\* response has game_blocked, and the judge pipeline did not run; a detected
\* and uncorrected refusal is never the stored or returned turn.
C4_BlockedTurnUsesFallback ==
    (/\ chat.pc = "idle"
     /\ response.status = 200
     /\ \/ response.refusal_info.turn_1_refusal
        \/ response.refusal_info.all_attempts_failed
        \/ (response.refusal_info.was_refusal
            /\ ~response.refusal_info.was_corrected))
        => /\ response.content = Fallback
           /\ response.game_blocked
           /\ ~response.judged
           /\ judge.pc = "idle"
           /\ CallsAt("judge_classifier") + CallsAt("rewrite")
                  + CallsAt("compare") = 0
           /\ messages # <<>>
           /\ messages[Len(messages)]
                  = [role |-> "assistant", content |-> Fallback]

\* a turn past the first was blocked after the correction loop used up its
\* three attempts
C4_Witness ==
    /\ chat.pc = "idle"
    /\ response.game_blocked
    /\ response.refusal_info.all_attempts_failed
    /\ Len(refusal_result.attempts) = ChatMaxRetries
    /\ messages[Len(messages)].content = Fallback

\* C5: on a turn past the first, with turn correction configured and
\* max_retries >= 1, when the initial turn and every correction candidate
\* are classified as a refusal, process_potential_refusal returns
\* all_attempts_failed true, was_corrected false, final_turn equal to the
\* original story_turn and exactly max_retries attempts.
C5_AllRefusalsExhaustBudget ==
    (/\ r_pc = "done"
     /\ r_args.turn_number >= 2
     /\ r_args.max_retries >= 1
     /\ config.turn_correction_model
     /\ config.turn_correction_prompt
     /\ refusal_result.attempts # <<>>
     /\ \A k \in DOMAIN refusal_result.attempts :
            refusal_result.attempts[k].was_refusal)
        => /\ refusal_result.all_attempts_failed
           /\ ~refusal_result.was_corrected
           /\ refusal_result.final_turn = r_args.story_turn
           /\ Len(refusal_result.attempts) = r_args.max_retries

\* a run with max_retries = 3 in which the original turn and two generated
\* candidates were all classified as refusals
C5_Witness ==
    /\ r_pc = "done"
    /\ r_args.turn_number = 2
    /\ r_args.max_retries = 3
    /\ Len(refusal_result.attempts) = 3
    /\ \A k \in 1..3 : /\ refusal_result.attempts[k].was_refusal
                       /\ ~refusal_result.attempts[k].error
    /\ refusal_result.attempts[3].turn_text = Txt("corr", 3, 0)
    /\ refusal_result.all_attempts_failed

\* C6: the correction loop is bounded: a run issues at most max_retries - 1
\* correction calls and records at most max_retries attempts; inside the
\* loop the attempts made and the budget left add up to max_retries; every
\* iteration that does not adopt its candidate, whether the candidate was a
\* refusal or a Generator call raised, takes exactly one unit from the
\* budget; and every started run reaches its return.
C6_CorrectionLoopIsBounded ==
    /\ [](r_pc # "idle" =>
            /\ CallsAt("correction") <= r_args.max_retries - 1
            /\ Len(refusal_result.attempts) <= r_args.max_retries
            /\ r_pc \in {"correcting", "reclassifying"} =>
                  /\ attempts_remaining > 0
                  /\ attempts_remaining + current_attempt
                         = r_args.max_retries + 1
                  /\ Len(refusal_result.attempts) = current_attempt - 1
                  /\ CallsAt("correction") = current_attempt - 1)
    /\ [][(/\ r_pc \in {"correcting", "reclassifying"}
           /\ Len(refusal_result'.attempts) = Len(refusal_result.attempts) + 1
           /\ ~refusal_result'.was_corrected)
             => /\ attempts_remaining' = attempts_remaining - 1
                /\ current_attempt' = current_attempt + 1]_vars
    /\ (r_pc # "idle") ~> (r_pc = "done")

\* a run with max_retries = 3 used its whole budget on one raised
\* correction call and one candidate that was still a refusal
C6_Witness ==
    /\ r_pc = "done"
    /\ r_args.max_retries = 3
    /\ attempts_remaining = 0
    /\ current_attempt = 4
    /\ CallsAt("correction") = 2
    /\ Len(refusal_result.attempts) = 3
    /\ refusal_result.attempts[2].error
    /\ ~refusal_result.attempts[3].error

\* C7: in the correction loop the first candidate re-classified as not a
\* refusal is adopted and the loop stops: every attempt before it was a
\* refusal, it is the last attempt, final_turn is that candidate,
\* was_corrected is true, all_attempts_failed is not set, and its
\* classification is the last Generator call of the run.
C7_FirstAcceptedCandidateIsAdopted ==
    \A k \in DOMAIN refusal_result.attempts :
        (k >= 2 /\ ~refusal_result.attempts[k].was_refusal)
            => /\ \A j \in 1..(k - 1) : refusal_result.attempts[j].was_refusal
               /\ k = Len(refusal_result.attempts)
               /\ r_pc = "done"
               /\ refusal_result.final_turn = refusal_result.attempts[k].turn_text
               /\ refusal_result.was_corrected
               /\ ~refusal_result.all_attempts_failed
               /\ CallsAt("correction") = k - 1
               /\ llm_calls # <<>>
               /\ llm_calls[Len(llm_calls)]
                      = LLMCall("refusal_classifier", 0, k, "classifier",
                                refusal_result.attempts[k].turn_text)

\* the second candidate of a run was the first one classified as not a
\* refusal
C7_Witness ==
    /\ r_pc = "done"
    /\ Len(refusal_result.attempts) = 3
    /\ refusal_result.attempts[2].was_refusal
    /\ ~refusal_result.attempts[2].error
    /\ ~refusal_result.attempts[3].was_refusal
    /\ refusal_result.attempts[3].turn_text = Txt("corr", 3, 0)
    /\ refusal_result.final_turn = Txt("corr", 3, 0)
    /\ attempts_remaining = 1

\* C8: when a refusal is detected with turn_number = 1 the run issues no
\* correction call and returns at once with turn_1_refusal and was_refusal
\* true, was_corrected false, final_turn equal to the original text and
\* exactly one recorded attempt.
C8_Turn1RefusalIsNotCorrected ==
    (/\ r_pc # "idle"
     /\ r_args.turn_number = 1
     /\ refusal_result.was_refusal)
        => /\ r_pc = "done"
           /\ CallsAt("correction") = 0
           /\ refusal_result.turn_1_refusal
           /\ ~refusal_result.was_corrected
           /\ refusal_result.final_turn = r_args.story_turn
           /\ Len(refusal_result.attempts) = 1
           /\ refusal_result.attempts[1].turn_text = r_args.story_turn

\* a refusal was detected on turn 1 under a configuration that has turn
\* correction set up
C8_Witness ==
    /\ r_pc = "done"
    /\ r_args.turn_number = 1
    /\ r_args.max_retries = 3
    /\ refusal_result.was_refusal
    /\ refusal_result.turn_1_refusal
    /\ config.turn_correction_model
    /\ config.turn_correction_prompt

\* C9: the refusal detector fails open: when refusal detection is disabled,
\* the classifier model or prompt is not configured, the classifier call on
\* the storyteller's turn raised, or its answer is ambiguous (neither class
\* of the boolean parser), process_potential_refusal returns at once with
\* final_turn equal to story_turn, was_refusal and was_corrected false,
\* neither turn_1_refusal nor all_attempts_failed set, and no correction
\* call issued.
C9_DetectorFailsOpen ==
    (/\ r_pc # "idle"
     /\ \/ ~config.enable_refusal_detection
        \/ ~config.classifier_model
        \/ config.classifier_prompt # "set"
        \/ /\ refusal_result.attempts # <<>>
           /\ LET answer == refusal_result.attempts[1].classifier_response IN
              \/ answer = ErrorResponse
              \/ /\ _parse_boolean_response(answer, TRUE)
                 /\ ~_parse_boolean_response(answer, FALSE))
        => /\ r_pc = "done"
           /\ refusal_result.final_turn = r_args.story_turn
           /\ ~refusal_result.was_refusal
           /\ ~refusal_result.was_corrected
           /\ ~refusal_result.turn_1_refusal
           /\ ~refusal_result.all_attempts_failed
           /\ CallsAt("correction") = 0

\* the classifier call on the storyteller's turn raised on a turn past the
\* first, under a configuration that has turn correction set up
C9_Witness ==
    /\ r_pc = "done"
    /\ r_args.turn_number = 2
    /\ config.enable_refusal_detection
    /\ config.turn_correction_model
    /\ config.turn_correction_prompt
    /\ Len(refusal_result.attempts) = 1
    /\ refusal_result.attempts[1].classifier_response = ErrorResponse
    /\ CallsAt("refusal_classifier") = 1

\* C10: the result of run_judge_pipeline follows the adopting steps only:
\* was_modified is true exactly when some step has final_used = 'rewrite';
\* final_turn is the approved rewrite of the last such step, and the
\* caller's input text when there is none.
C10_ResultFollowsAdoptingSteps ==
    judge.pc = "done" =>
        LET steps == judge.result.steps
            adopting == { k \in DOMAIN steps : steps[k].final_used = "rewrite" }
        IN /\ judge.result.was_modified <=> adopting # {}
           /\ IF adopting = {}
              THEN judge.result.final_turn = judge.story_turn
              ELSE LET last == CHOOSE k \in adopting : \A j \in adopting : j <= k
                       att == steps[last].attempts
                   IN /\ att # <<>>
                      /\ att[Len(att)].approved
                      /\ judge.result.final_turn = att[Len(att)].rewrite_text

\* a run of two steps: the first adopted its rewrite, the second had its
\* rewrite of the adopted text rejected and kept it
C10_Witness ==
    /\ judge.pc = "done"
    /\ Len(judge.result.steps) = 2
    /\ judge.result.steps[1].final_used = "rewrite"
    /\ judge.result.steps[2].final_used = "original"
    /\ judge.result.steps[2].attempts # <<>>
    /\ judge.result.steps[2].attempts[1].rewrite_text # Empty
    /\ judge.result.was_modified
    /\ judge.result.final_turn = judge.result.steps[1].attempts[1].rewrite_text
    /\ judge.result.final_turn # judge.story_turn

C12_RejectedStepHasMaxAttempts ==
    \A idx \in DOMAIN judge.result.steps :
        LET sr == judge.result.steps[idx]
            step == judge.steps[idx]
        IN (/\ ~(step.classifier_prompt /\ step.classifier_model)
            /\ step.max_rewrite_attempts >= 0
            /\ \A k \in DOMAIN sr.attempts :
                   /\ ~sr.attempts[k].approved
                   /\ sr.attempts[k].error = "None")
              => /\ Len(sr.attempts) = step.max_rewrite_attempts
                 /\ sr.final_used = "original"
                 /\ Len(judge.result.steps) = 1
                       => judge.current_turn = judge.story_turn

\* C13: run_judge_pipeline processes exactly the enabled steps of the
\* configuration in ascending (order, id): at every point of a run the step
\* results recorded so far and the Generator calls issued so far belong to
\* enabled steps and follow that order, and at the return there is exactly
\* one step result per enabled step; a disabled step has no result and no
\* call.
C13_EnabledStepsInOrder ==
    LET row(id) == CHOOSE s \in config.judge_steps : s.id = id
        enabled_ids == { s.id : s \in { t \in config.judge_steps : t.enabled } }
        results == judge.result.steps
    IN judge.pc # "idle" =>
         /\ \A k \in DOMAIN results : results[k].step_id \in enabled_ids
         /\ \A k \in DOMAIN results : \A l \in DOMAIN results :
                k < l => StepBefore(row(results[k].step_id),
                                    row(results[l].step_id))
         /\ \A a \in DOMAIN llm_calls : llm_calls[a].step \in enabled_ids
         /\ \A a \in DOMAIN llm_calls : \A b \in DOMAIN llm_calls :
                a < b => \/ llm_calls[a].step = llm_calls[b].step
                         \/ StepBefore(row(llm_calls[a].step),
                                       row(llm_calls[b].step))
         /\ judge.pc = "done" =>
                /\ { results[k].step_id : k \in DOMAIN results } = enabled_ids
                /\ Len(results) = Cardinality(enabled_ids)

\* a run over two enabled steps in which the step with the larger id has
\* the smaller order: it ran first and failed, the other ran second and
\* adopted its rewrite
C13_Witness ==
    /\ judge.pc = "done"
    /\ Len(judge.result.steps) = 2
    /\ judge.result.steps[1].step_id = 2
    /\ judge.result.steps[1].error = "Error"
    /\ judge.result.steps[2].step_id = 1
    /\ judge.result.steps[2].final_used = "rewrite"
    /\ llm_calls[1].step = 2
    /\ llm_calls[Len(llm_calls)].step = 1

\* C14: a step (with max_rewrite_attempts >= 0, so that the rewrite phase
\* makes at least one attempt) enters the rewrite phase exactly when it has
\* no classifier configured or its classifier answered and the boolean parse
\* of the answer with default true is true; when the classifier answers
\* negatively the step is a no-op: no rewrite or compare call, no attempt,
\* final_used = 'original', and the running text is what it was before.
C14_RewriteIffNeedsCorrection ==
    \A idx \in DOMAIN judge.result.steps :
        LET results == judge.result.steps
            sr == results[idx]
            step == judge.steps[idx]
            has_classifier == step.classifier_prompt /\ step.classifier_model
            answered == has_classifier /\ ~(sr.error = "Error" /\ ~sr.needs_correction)
            positive == answered /\ _parse_boolean_response(sr.classifier_response, TRUE)
            adopting == { k \in 1..(idx - 1) : results[k].final_used = "rewrite" }
            text_before ==
                IF adopting = {} THEN judge.story_turn
                ELSE LET last == CHOOSE k \in adopting : \A j \in adopting : j <= k
                     IN results[last].attempts[Len(results[last].attempts)].rewrite_text
        IN /\ step.max_rewrite_attempts >= 0
                => (sr.attempts # <<>> <=> (~has_classifier \/ positive))
           /\ (answered /\ ~positive)
                => /\ sr.attempts = <<>>
                   /\ sr.final_used = "original"
                   /\ ~sr.used_rewrite
                   /\ \A a \in DOMAIN llm_calls :
                          llm_calls[a].step = sr.step_id
                              => llm_calls[a].site = "judge_classifier"
                   /\ idx = Len(results) => judge.current_turn = text_before

\* a run of two steps: the first adopted its rewrite, the classifier of the
\* second answered "no" on the adopted text and the second made no attempt
C14_Witness ==
    /\ judge.pc = "done"
    /\ Len(judge.result.steps) = 2
    /\ judge.result.steps[1].final_used = "rewrite"
    /\ judge.result.steps[2].classifier_response = <<"n","o">>
    /\ judge.result.steps[2].attempts = <<>>
    /\ judge.result.final_turn = judge.result.steps[1].attempts[1].rewrite_text
    /\ judge.result.final_turn # judge.story_turn
    /\ llm_calls[Len(llm_calls)].site = "judge_classifier"

\* C15 as stated: whenever an exception was raised while a step ran (its
\* classifier call raised, or an attempt has an error: a rewrite or compare
\* call raised, or the rewrite or compare prompt is missing), the step has
\* its error field set, ends with final_used = 'original' and leaves the
\* running text unchanged, and the run still produces a result for every
\* enabled step.
C15_StepFailureKeepsOriginal ==
    /\ \A idx \in DOMAIN judge.result.steps :
        LET results == judge.result.steps
            sr == results[idx]
            step == judge.steps[idx]
            classifier_raised ==
                /\ step.classifier_prompt /\ step.classifier_model
                /\ ~sr.needs_correction
                /\ _parse_boolean_response(sr.classifier_response, TRUE)
            attempt_failed == \E k \in DOMAIN sr.attempts : sr.attempts[k].error # "None"
            adopting == { k \in 1..(idx - 1) : results[k].final_used = "rewrite" }
            text_before ==
                IF adopting = {} THEN judge.story_turn
                ELSE LET last == CHOOSE k \in adopting : \A j \in adopting : j <= k
                     IN results[last].attempts[Len(results[last].attempts)].rewrite_text
        IN (classifier_raised \/ attempt_failed)
              => /\ sr.error # "None"
                 /\ sr.final_used = "original"
                 /\ idx = Len(results) => judge.current_turn = text_before
    /\ judge.pc = "done"
          => Len(judge.result.steps)
                = Cardinality({ s \in config.judge_steps : s.enabled })

\* C15 amended: an exception raised while a step runs never aborts the
\* pipeline.  A classifier call that raised ends the step with its error
\* set and no attempt.  An exception inside a rewrite/compare attempt is
\* recorded in that attempt and the loop goes on: the step's error field is
\* set exactly when no attempt of the step was approved, and the step ends
\* with final_used = 'original' and the running text unchanged unless a
\* later attempt was approved with a non-empty rewrite, which is adopted.
\* In every case the run produces a result for every enabled step.
C15_StepFailureNeverAborts ==
    /\ \A idx \in DOMAIN judge.result.steps :
        LET results == judge.result.steps
            sr == results[idx]
            step == judge.steps[idx]
            classifier_raised ==
                /\ step.classifier_prompt /\ step.classifier_model
                /\ ~sr.needs_correction
                /\ _parse_boolean_response(sr.classifier_response, TRUE)
            attempt_failed == \E k \in DOMAIN sr.attempts : sr.attempts[k].error # "None"
            approved == { k \in DOMAIN sr.attempts : sr.attempts[k].approved }
            adopted == \E k \in approved : sr.attempts[k].rewrite_text # Empty
            adopting == { k \in 1..(idx - 1) : results[k].final_used = "rewrite" }
            text_before ==
                IF adopting = {} THEN judge.story_turn
                ELSE LET last == CHOOSE k \in adopting : \A j \in adopting : j <= k
                     IN results[last].attempts[Len(results[last].attempts)].rewrite_text
        IN /\ classifier_raised
                => /\ sr.error # "None"
                   /\ sr.attempts = <<>>
                   /\ sr.final_used = "original"
           /\ attempt_failed
                => /\ sr.error # "None" <=> approved = {}
                   /\ sr.final_used = "rewrite" <=> adopted
           /\ (classifier_raised \/ attempt_failed) /\ sr.final_used = "original"
                => (idx = Len(results) => judge.current_turn = text_before)
    /\ judge.pc = "done"
          => Len(judge.result.steps)
                = Cardinality({ s \in config.judge_steps : s.enabled })

\* a run of two steps: the classifier call of the first raised, and the
\* second, whose compare prompt is missing, was still executed and failed
\* in its attempt
C15_Witness ==
    /\ judge.pc = "done"
    /\ Len(judge.result.steps) = 2
    /\ judge.steps[1].classifier_prompt
    /\ judge.result.steps[1].error = "Error"
    /\ judge.result.steps[1].attempts = <<>>
    /\ ~judge.steps[2].compare_prompt
    /\ judge.result.steps[2].error = "Error"
    /\ Len(judge.result.steps[2].attempts) = 1
    /\ judge.result.steps[2].attempts[1].error = "Error"
    /\ judge.result.steps[2].attempts[1].rewrite_text # Empty
    /\ judge.result.final_turn = judge.story_turn

\* C16: when the classifier call of a step raised, the step behaves as if
\* the classifier had answered the default "needs correction": its
\* rewrite/compare loop is run (for max_rewrite_attempts >= 0 it makes at
\* least one attempt, whose rewrite call is issued when the rewrite prompt
\* is set).
C16_ClassifierFailureStillRewrites ==
    \A idx \in DOMAIN judge.result.steps :
        LET sr == judge.result.steps[idx]
            step == judge.steps[idx]
            classifier_raised ==
                /\ step.classifier_prompt /\ step.classifier_model
                /\ ~sr.needs_correction
                /\ _parse_boolean_response(sr.classifier_response, TRUE)
        IN (classifier_raised /\ step.max_rewrite_attempts >= 0)
              => /\ sr.attempts # <<>>
                 /\ step.rewrite_prompt
                       => \E a \in DOMAIN llm_calls :
                              /\ llm_calls[a].step = sr.step_id
                              /\ llm_calls[a].site = "rewrite"

\* C17: for turn >= 2 of a session that is not game_over the ending check
\* draws one roll, computes a probability in [0, 1] that is the expression's
\* value clamped to [0, 1] (0 when the evaluation raises), returns true
\* exactly when roll < probability, and stores roll and probability on the
\* session, and nothing else, whether or not the ending triggers.
C17_RollAgainstClampedProbability ==
    (/\ last_death_check.called
     /\ last_death_check.turn_number >= 2
     /\ last_death_check.before.exists
     /\ ~last_death_check.before.game_over)
        => LET e == expression(config.difficulty, last_death_check.turn_number,
                               last_death_check.before.max_turns)
               p == last_death_check.after.last_death_probability
           IN /\ last_death_check.rolled
              /\ last_death_check.roll \in DeathRolls
              /\ p >= 0 /\ p <= Scale
              /\ e.raised => p = 0
              /\ (~e.raised /\ e.value < 0) => p = 0
              /\ (~e.raised /\ e.value > Scale) => p = Scale
              /\ (~e.raised /\ e.value >= 0 /\ e.value <= Scale) => p = e.value
              /\ last_death_check.returned <=> last_death_check.roll < p
              /\ last_death_check.after
                    = [last_death_check.before EXCEPT
                          !.last_death_roll = last_death_check.roll,
                          !.last_death_probability = p]

\* the example of the claim: on turn 2 of 4 the expression
\* 0.05 + 0.35 * (x/n)**2 gives 0.1375; the roll 0.20 does not trigger the
\* ending and both numbers are stored on the session
C17_Witness ==
    /\ last_death_check.called
    /\ config.difficulty = "quadratic"
    /\ last_death_check.turn_number = 2
    /\ last_death_check.before.max_turns = 4
    /\ last_death_check.roll = 2000
    /\ ~last_death_check.returned
    /\ game_session.last_death_probability = 1375
    /\ game_session.last_death_roll = 2000
    /\ ~game_session.game_over

\* C18: whenever the ending check triggered for a turn, the storyteller call
\* of that turn uses the ending system prompt and its message context is
\* the narrative summary with the instruction to conclude, not the raw
\* conversation history.
C18_EndingTurnUsesSummaryContext ==
    (chat.pc = "storyteller" /\ chat.use_game_ending_prompt)
        => /\ llm_calls # <<>>
           /\ llm_calls[Len(llm_calls)].site = "storyteller"
           /\ llm_calls[Len(llm_calls)].prompt = "game_ending"
           /\ llm_calls[Len(llm_calls)].subject
                  = prepare_death_scene_messages(LastN(messages, HistoryWindow))

\* C19: over any sequence of send-message requests on one conversation, also
\* with requests whose Generator call failed and left a player message
\* unanswered, the turn_number stored on the session never decreases.
C19_TurnNumberNeverDecreases ==
    [][(game_session.exists /\ game_session'.exists)
          => game_session'.turn_number >= game_session.turn_number]_vars

\* C20: when turn 1 of a conversation generated a session id and embedded
\* its marker, every later request of that conversation whose messages hold
\* no marker any more and have a fingerprint is resolved by process_messages
\* to that session id.
C20_SessionSurvivesMarkerStripping ==
    (/\ owui.generated # NoSessionId
     /\ owui.requests > owui.generated_at
     /\ ~owui.had_marker
     /\ owui.conversation_fingerprint # NoFingerprint)
        => owui.session_id = owui.generated

\* C21: the parser returns true when the upper-cased text contains YES, TRUE
\* or PASS; otherwise false when it contains NO, FALSE or FAIL; otherwise,
\* also for the empty text, the caller's default.
C21_ParserFollowsTokenFamilies ==
    probe.called =>
        LET upper == Upper(probe.text)
            positive == \/ Contains(upper, <<"Y","E","S">>)
                        \/ Contains(upper, <<"T","R","U","E">>)
                        \/ Contains(upper, <<"P","A","S","S">>)
            negative == \/ Contains(upper, <<"N","O">>)
                        \/ Contains(upper, <<"F","A","L","S","E">>)
                        \/ Contains(upper, <<"F","A","I","L">>)
        IN /\ positive => probe.parsed
           /\ (~positive /\ negative) => ~probe.parsed
           /\ (~positive /\ ~negative) => probe.parsed = probe.default

\* an answer with tokens of both families and text around them was parsed
\* with default false
C21_Witness ==
    /\ probe.called
    /\ probe.text = <<"n","o">> \o <<" ">> \o <<"Y","e","s">>
    /\ ~probe.default
    /\ probe.parsed

\* C22: for every classifier response text, the is_refusal decision of
\* detect_refusal equals _parse_boolean_response(text, default=False).
C22_RefusalDecisionIsSharedParser ==
    probe.called =>
        probe.is_refusal = _parse_boolean_response(probe.text, FALSE)

\* C22, amended: the is_refusal decision of detect_refusal is true exactly
\* when the stripped, lower-cased response starts with yes or true; every
\* response it takes for a refusal the shared parser with default false
\* takes for true as well.
C22_RefusalDecisionIsPrefixMatch ==
    probe.called =>
        LET answer == Lower(Strip(probe.text)) IN
        /\ probe.is_refusal <=> (\/ StartsWith(answer, <<"y","e","s">>)
                                 \/ StartsWith(answer, <<"t","r","u","e">>))
        /\ probe.is_refusal => _parse_boolean_response(probe.text, FALSE)

\* a response that holds TRUE after a blank was decided to be a refusal
C22_Witness ==
    /\ probe.called
    /\ probe.text = <<" ">> \o <<"T","R","U","E">> \o <<"x">>
    /\ probe.is_refusal

\* C23: a get returns the value of the latest set on its key while that
\* entry, which carries the time of that set, is no older than the TTL and
\* was not swept; otherwise it returns empty and leaves no entry behind, so
\* that later gets return empty until the next set.
C23_GetReturnsLatestUnexpiredValue ==
    \A t \in CacheThreads :
        thr[t].pc = "get_return" =>
            LET r == thr[t]
                latest == r.seen
                fresh == /\ latest.happened
                         /\ ~latest.swept
                         /\ r.read_time - latest.time <= CacheTTL
            IN /\ r.result = IF fresh THEN latest.value ELSE CacheNone
               /\ fresh => cache[r.key] = [present |-> TRUE,
                                           value |-> latest.value,
                                           timestamp |-> latest.time]
               /\ ~fresh => ~cache[r.key].present

\* a get found an entry older than the TTL, evicted it and returns empty
C23_Witness ==
    \E t \in CacheThreads :
        /\ thr[t].op = "get"
        /\ thr[t].pc = "get_return"
        /\ thr[t].seen.happened
        /\ ~thr[t].seen.swept
        /\ thr[t].read_time - thr[t].seen.time > CacheTTL
        /\ thr[t].result = CacheNone

\* C24: wait_for returns a value only if its last poll found an entry of
\* its key that was not older than the TTL, it returns empty only when at
\* least timeout has elapsed since it started, and under every schedule of
\* the other threads' operations it terminates.
C24_WaitForPollsUntilValueOrTimeout ==
    \A t \in CacheThreads :
        /\ [](thr[t].pc = "wf_return" =>
                 LET r == thr[t] IN
                 IF r.result # CacheNone
                 THEN /\ r.seen.happened
                      /\ ~r.seen.swept
                      /\ r.result = r.seen.value
                      /\ r.read_time - r.seen.time <= CacheTTL
                 ELSE r.end_time - r.start_time >= r.timeout)
        /\ [](thr[t].op = "wait_for" => <>(thr[t].op # "wait_for"))

\* a wait_for with a positive timeout polled, slept and timed out
C24_Witness ==
    \E t \in CacheThreads :
        /\ thr[t].pc = "wf_return"
        /\ thr[t].timeout > 0
        /\ thr[t].result = CacheNone
        /\ thr[t].end_time - thr[t].start_time >= thr[t].timeout

\* the threads that are inside a with self._lock block
InLock ==
    { t \in CacheThreads :
        thr[t].pc \in {"set_store", "get_check", "get_read", "get_evict",
                       "get_return", "cleanup_collect", "cleanup_delete"} }

\* C25: under every interleaving of set, get, the polls of wait_for and
\* cleanup_old_entries, at most one thread is inside the cache at a time, no
\* operation raises because the entry it works on is gone, and a get returns
\* empty or the value of the latest set on its key.
C25_CacheIsSafeUnderConcurrency ==
    /\ Cardinality(InLock) <= 1
    /\ lock <=> InLock # {}
    /\ \A t \in CacheThreads :
          /\ ~thr[t].error
          /\ thr[t].pc = "get_return" =>
                \/ thr[t].result = CacheNone
                \/ /\ last_set[thr[t].key].happened
                   /\ thr[t].result = last_set[thr[t].key].value

\* a get is about to evict an expired entry while a sweep that would delete
\* the same entry waits for the lock
C25_Witness ==
    \E t, u \in CacheThreads :
        /\ thr[t].pc = "get_evict"
        /\ thr[u].op = "cleanup"
        /\ thr[u].pc = "lock"
        /\ now - cache[thr[t].key].timestamp > thr[u].max_age

(***************************************************************************)
(* Claims about failures inside the retry loop and about the trace of      *)
(* Generator calls of one pipeline run.                                    *)
(***************************************************************************)
\* the rewrite call of attempt k of the step with this id, as logged
RewriteCallsOf(id, k) ==
    { n \in DOMAIN llm_calls : /\ llm_calls[n].site = "rewrite"
                               /\ llm_calls[n].step = id
                               /\ llm_calls[n].attempt = k }

\* the recording of failures in the retry loop: a failed attempt k of a
\* finished step is recorded with its error and approved = false under its
\* own number, attempt k+1 exists when k < max_rewrite_attempts, and its
\* rewrite call was issued on the text of the rewrite call of attempt k;
\* while a step runs, a recorded failure of attempt k < max_rewrite_attempts
\* has attempt k+1 under way.
FailedAttemptIsRejected ==
    /\ \A idx \in DOMAIN judge.result.steps :
          LET sr == judge.result.steps[idx]
              step == judge.steps[idx]
          IN \A k \in DOMAIN sr.attempts :
                sr.attempts[k].error # "None"
                  => /\ ~sr.attempts[k].approved
                     /\ sr.attempts[k].attempt_number = k
                     /\ k < step.max_rewrite_attempts
                          => /\ Len(sr.attempts) >= k + 1
                             /\ \A m \in RewriteCallsOf(step.id, k),
                                   n \in RewriteCallsOf(step.id, k + 1) :
                                   llm_calls[n].subject = llm_calls[m].subject
    /\ judge.pc \in {"rewriting", "comparing"}
          => \A k \in DOMAIN judge.step_result.attempts :
                (/\ judge.step_result.attempts[k].error # "None"
                 /\ k < judge.steps[judge.i].max_rewrite_attempts)
                  => /\ ~judge.step_result.attempts[k].approved
                     /\ judge.attempt_num >= k + 1
                     /\ Len(judge.step_result.attempts) = judge.attempt_num - 1

JudgeWaiting == judge.pc \in {"classifying", "rewriting", "comparing"}

\* the log of Generator calls follows the declared order: steps in ascending
\* (order, id) and never revisited; a step's first call is its classifier
\* call or the rewrite call of attempt 1; after the classifier only the
\* rewrite call of attempt 1; a compare call directly after the rewrite call
\* of its attempt; after the calls of attempt k only the rewrite call of
\* attempt k+1; while a call is in flight it is the last of the log, it
\* belongs to the current step and every earlier step has its result
CallTraceInOrder ==
    LET row(id) == CHOOSE s \in config.judge_steps : s.id = id IN
    judge.pc # "idle" =>
      /\ \A n \in DOMAIN llm_calls :
            LET c == llm_calls[n] IN
            /\ c.site \in {"judge_classifier", "rewrite", "compare"}
            /\ \A m \in 1..(n - 1) :
                  \/ llm_calls[m].step = c.step
                  \/ StepBefore(row(llm_calls[m].step), row(c.step))
            /\ IF n = 1 \/ llm_calls[IF n = 1 THEN 1 ELSE n - 1].step # c.step
               THEN \/ c.site = "judge_classifier"
                    \/ c.site = "rewrite" /\ c.attempt = 1
               ELSE LET p == llm_calls[n - 1] IN
                    CASE c.site = "judge_classifier" -> FALSE
                      [] c.site = "rewrite" ->
                            \/ p.site = "judge_classifier" /\ c.attempt = 1
                            \/ /\ p.site \in {"rewrite", "compare"}
                               /\ c.attempt = p.attempt + 1
                      [] c.site = "compare" ->
                            p.site = "rewrite" /\ p.attempt = c.attempt
      /\ JudgeWaiting =>
            LET c == llm_calls[Len(llm_calls)] IN
            /\ llm_calls # <<>>
            /\ c.step = judge.steps[judge.i].id
            /\ Len(judge.result.steps) = judge.i - 1
            /\ c.site = CASE judge.pc = "classifying" -> "judge_classifier"
                          [] judge.pc = "rewriting" -> "rewrite"
                          [] judge.pc = "comparing" -> "compare"
            /\ c.site # "judge_classifier" => c.attempt = judge.attempt_num

\* a step of the pipeline logs at most one call, keeps the log before it,
\* and logs a compare call only as the successful return of the rewrite call
\* in flight: the attempt is the same, it has no error and was not appended
CallIssuedOnReturn ==
    llm_calls' # llm_calls =>
      /\ Len(llm_calls') = Len(llm_calls) + 1
      /\ SubSeq(llm_calls', 1, Len(llm_calls)) = llm_calls
      /\ judge.pc = "idle" \/ JudgeWaiting
      /\ llm_calls'[Len(llm_calls')].site = "compare" =>
            /\ judge.pc = "rewriting"
            /\ judge'.i = judge.i
            /\ judge'.attempt_num = judge.attempt_num
            /\ judge'.attempt_result.error = "None"
            /\ judge'.step_result.attempts = judge.step_result.attempts

\* C27: the Generator calls of one run_judge_pipeline form a strictly
\* sequential trace in declared order: steps ascending; within a step at
\* most one classifier call first, then for attempts 1, 2, ... a rewrite
\* call followed by a compare call; a compare call is issued only after the
\* rewrite call of the same attempt returned successfully; no call of a
\* later step is issued before the earlier step has finished; at most one
\* call (the last of the log) is in flight, the next one being issued only
\* when it has returned or raised.
C27_CallsFormSequentialTrace ==
    []CallTraceInOrder /\ [][CallIssuedOnReturn]_vars

\* a finished run over two steps: the first classified, rewrote and
\* compared, the second rewrote and compared after the first had finished
C27_Witness ==
    /\ judge.pc = "done"
    /\ Len(judge.result.steps) = 2
    /\ Len(llm_calls) = 5
    /\ llm_calls[1].site = "judge_classifier"
    /\ llm_calls[2].site = "rewrite"
    /\ llm_calls[3].site = "compare"
    /\ llm_calls[3].step = judge.steps[1].id
    /\ llm_calls[4].site = "rewrite"
    /\ llm_calls[4].step = judge.steps[2].id
    /\ llm_calls[5].site = "compare"
    /\ judge.result.steps[1].final_used = "rewrite"

\* the running text at the start of the step at position p of a run: the
\* rewrite adopted by the latest earlier step that adopted one (the text of
\* its last, approved attempt), or else the pipeline input
TextAtStepStart(p) ==
    LET adopting == { idx \in DOMAIN judge.result.steps :
                          idx < p /\ judge.result.steps[idx].used_rewrite }
    IN IF adopting = {} THEN judge.story_turn
       ELSE LET last == CHOOSE idx \in adopting : \A o \in adopting : o <= idx
                sr == judge.result.steps[last]
            IN sr.attempts[Len(sr.attempts)].rewrite_text

\* C28: every classifier, rewrite and compare call of judge step j operates
\* on the running text as it was when step j started, which is the rewrite
\* adopted by the latest earlier adopting step or else the pipeline input;
\* a rejected or failed rewrite never alters the text used by later attempts
\* of the same step or by later steps (nor the text returned at the end).
C28_CallsUseTextAtStepStart ==
    judge.pc # "idle" =>
      /\ \A n \in DOMAIN llm_calls :
            LET c == llm_calls[n]
                p == CHOOSE q \in DOMAIN judge.steps : judge.steps[q].id = c.step
            IN c.subject = TextAtStepStart(p)
      /\ JudgeWaiting => judge.current_turn = TextAtStepStart(judge.i)
      /\ judge.pc = "done" =>
            judge.result.final_turn = TextAtStepStart(Len(judge.steps) + 1)
      /\ \A idx \in DOMAIN judge.result.steps :
            ~judge.result.steps[idx].used_rewrite
               => TextAtStepStart(idx + 1) = TextAtStepStart(idx)

\* a finished run over two steps: the first adopted its rewrite, the second
\* rewrote and compared that text, had its rewrite rejected and left it as
\* the final text
C28_Witness ==
    /\ judge.pc = "done"
    /\ Len(judge.result.steps) = 2
    /\ judge.result.steps[1].used_rewrite
    /\ Len(judge.result.steps[2].attempts) = 1
    /\ judge.result.steps[2].attempts[1].rewrite_text = Txt("rw", judge.steps[2].id, 1)
    /\ judge.result.steps[2].attempts[1].compare_response # <<>>
    /\ ~judge.result.steps[2].attempts[1].approved
    /\ llm_calls[Len(llm_calls)].site = "compare"
    /\ llm_calls[Len(llm_calls)].step = judge.steps[2].id
    /\ llm_calls[Len(llm_calls)].subject = Txt("rw", judge.steps[1].id, 1)
    /\ judge.result.final_turn = Txt("rw", judge.steps[1].id, 1)

(***************************************************************************)
(* Claims about the outcome flags of process_potential_refusal.            *)
(***************************************************************************)
\* C29: every result of process_potential_refusal has consistent outcome
\* flags: was_corrected implies was_refusal; was_corrected, turn_1_refusal
\* and all_attempts_failed are pairwise exclusive; was_refusal without
\* was_corrected implies turn_1_refusal or all_attempts_failed (also when a
\* refusal is detected with no turn-correction prompt or model configured);
\* and final_turn differs from the input story_turn only when was_corrected.
C29_OutcomeFlagsConsistent ==
    r_pc = "done" =>
      LET r == refusal_result IN
      /\ r.was_corrected => r.was_refusal
      /\ ~(r.was_corrected /\ r.turn_1_refusal)
      /\ ~(r.was_corrected /\ r.all_attempts_failed)
      /\ ~(r.turn_1_refusal /\ r.all_attempts_failed)
      /\ (r.was_refusal /\ ~r.was_corrected)
            => (r.turn_1_refusal \/ r.all_attempts_failed)
      /\ r.final_turn # r_args.story_turn => r.was_corrected

\* a refusal detected on turn 2 with no turn-correction model configured:
\* the result is the input turn with all_attempts_failed alone set
C29_Witness ==
    /\ r_pc = "done"
    /\ r_args.turn_number = 2
    /\ ~config.turn_correction_model
    /\ refusal_result.was_refusal
    /\ ~refusal_result.was_corrected
    /\ ~refusal_result.turn_1_refusal
    /\ refusal_result.all_attempts_failed
    /\ Len(refusal_result.attempts) = 1
    /\ refusal_result.final_turn = r_args.story_turn

(***************************************************************************)
(* Claims about the ending mode of a conversation whose ending turn was    *)
(* not delivered.                                                          *)
(***************************************************************************)
\* configurations with a difficulty profile and no judge step: the ending
\* triggers by its roll or at once; refusal detection with and without
\* correction, or none; with and without storyteller model
EndingConfigs ==
    { [BaseConfig EXCEPT !.difficulty = "quadratic"],
      [BaseConfig EXCEPT !.difficulty = "quadratic",
                         !.turn_correction_model = FALSE],
      [BaseConfig EXCEPT !.difficulty = "always",
                         !.enable_refusal_detection = FALSE,
                         !.game_ending_prompt = FALSE],
      [BaseConfig EXCEPT !.difficulty = "always",
                         !.storyteller_model = FALSE] }

\* the chat application on a conversation whose first request is over: it
\* stored the player's message and the session, and the answer unless the
\* request ended in the 500 branch for want of a storyteller model
InitEnding ==
    /\ config \in EndingConfigs
    /\ messages = IF config.present /\ config.storyteller_model
                  THEN History(0, 1)
                  ELSE History(1, 0)
    /\ game_session =
          [SessionAfter(messages) EXCEPT
              !.max_turns = IF config.present THEN config.total_turns
                            ELSE DefaultMaxTurns]
    /\ llm_calls = <<>>
    /\ r_pc = "idle"
    /\ r_args = NoArgs
    /\ refusal_result = InitialRefusalResult(Empty)
    /\ attempts_remaining = 0
    /\ current_attempt = 0
    /\ corrected_turn = Empty
    /\ judge = IdleJudge
    /\ chat = IdleChat
    /\ response = NoResponse
    /\ last_death_check = NoDeathCheck
    /\ requests_left = MaxRequests
    /\ InitOwui
    /\ probe = NoProbe
    /\ InitCache

NextEnding ==
    \/ ChatSend
    \/ ChatStorytellerFailed
    \/ ChatStorytellerReturned
    \/ RefusalClassified
    \/ CorrectionGenerated
    \/ CorrectionFailed
    \/ CorrectionClassified
    \/ ChatRefusalReturned
    \/ ChatJudgeReturned
    \/ ChatDelete

SpecEnding == InitEnding /\ [][NextEnding]_vars

\* the ending check is configured: `if config and config.difficulty`
EndingCheckConfigured == config.present /\ config.difficulty # "None"

\* whenever the last ending check returned true the session is game_over,
\* in particular while the storyteller call of that request is in flight
\* and after the request has ended, in whichever way
EndingIsPersisted ==
    /\ (last_death_check.called /\ last_death_check.returned)
          => game_session.exists /\ game_session.game_over
    /\ (chat.pc = "storyteller" /\ chat.use_game_ending_prompt)
          => /\ game_session.game_over
             /\ llm_calls = <<LLMCall("storyteller", 0, 0, chat.system_prompt,
                                      llm_calls[1].subject)>>

\* no step rolls game_over back; a request in ending mode that ends with
\* the failure of the storyteller call stores nothing, one that is blocked
\* by the refusal handling stores the fallback text; and a request that
\* finds the session game_over runs in ending mode: the check returns true
\* without a roll and the storyteller call, if made, is an ending call
EndingIsKept ==
    /\ (game_session.exists /\ game_session.game_over)
          => game_session'.exists /\ game_session'.game_over
    /\ (chat.pc = "storyteller" /\ chat.use_game_ending_prompt
          /\ response'.status = 500)
          => messages' = messages /\ chat'.pc = "idle"
    /\ (chat.pc = "refusal" /\ chat.use_game_ending_prompt
          /\ response'.game_blocked)
          => /\ messages' = Append(messages,
                    [role |-> "assistant", content |-> Fallback])
             /\ chat'.pc = "idle"
    /\ (chat.pc = "idle" /\ Len(messages') > Len(messages)
          /\ game_session.exists /\ game_session.game_over
          /\ EndingCheckConfigured)
          => /\ last_death_check'.called
             /\ last_death_check'.was_over
             /\ last_death_check'.returned
             /\ ~last_death_check'.rolled
             /\ chat'.pc = "storyteller"
                   => /\ chat'.use_game_ending_prompt
                      /\ config.game_ending_prompt
                            => chat'.system_prompt = "game_ending"

\* C30: when the ending check triggers, game_over is persisted on the
\* session before the storyteller Generator is called and is never rolled
\* back: if that call then fails, or the turn is blocked by the refusal
\* handling, the session stays game_over although no ending turn was stored
\* for the player, and every later request of the conversation runs in
\* ending mode.
C30_EndingPersistedBeforeStorytellerCall ==
    []EndingIsPersisted /\ [][EndingIsKept]_vars

\* the storyteller call of a request in ending mode whose predecessor, the
\* request of turn 2, triggered the ending by its roll and then failed: the
\* history ends with two player messages in a row
C30_Witness ==
    /\ chat.pc = "storyteller"
    /\ chat.use_game_ending_prompt
    /\ chat.turn_number = 3
    /\ last_death_check.was_over
    /\ ~last_death_check.rolled
    /\ game_session.game_over
    /\ game_session.last_death_roll \in Rolls
    /\ Len(messages) = 4
    /\ messages[3].role = "user"
    /\ messages[4].role = "user"

====
